---- MODULE Spec2Model ----
(***************************************************************************)
(* Streaming normalization engine of oagw-sdk:                             *)
(*   - the SSE chunk-to-event parser (sse/parse.rs),                       *)
(*   - the WebSocket message bridge (ws/stream.rs),                        *)
(*   - the dispatch decision and the typed event stream (sse/detect.rs,    *)
(*     sse/stream.rs), and re-serialisation (sse/response.rs).             *)
(* Bytes are integers 0..255, decoded text is a sequence of code points.   *)
(* Option<T> is a sequence of length 0 (None) or 1 (Some).                 *)
(***************************************************************************)
EXTENDS Integers, Sequences, FiniteSets, TLC

\* ------------------------------------------------------------------------
\* Bounds of the model
\* ------------------------------------------------------------------------
\* number of segments a byte stream is composed of
MaxSegs == 2
\* number of messages through the raw WebSocket channel, both directions
MaxRaw == 3
\* most calls of Service::get in one behaviour
MaxGets == 3
\* longest run of newlines between two blocks
MaxRun == 4
\* longest byte stream of a behaviour checked for termination
MaxLiveLen == 18
\* most lines of a block handed to parse_line one by one
MaxLines == 3
\* most chunks of a body stream handed to forward_body_stream
MaxChunks == 3
\* most events serialised one after the other
MaxEvents == 2

\* ------------------------------------------------------------------------
\* Characters the parser looks at
\* ------------------------------------------------------------------------
LF == 10
CR == 13
COLON == 58
SPACE == 32
NUL == 0
PLUS == 43
BOM == 65279

FieldData == <<100, 97, 116, 97>>
FieldEvent == <<101, 118, 101, 110, 116>>
FieldId == <<105, 100>>
FieldRetry == <<114, 101, 116, 114, 121>>

\* ------------------------------------------------------------------------
\* Sequence helpers (str::find, str::contains, str::strip_prefix, ...)
\* ------------------------------------------------------------------------
RECURSIVE FindFrom(_, _, _)
FindFrom(s, c, i) ==
    IF i > Len(s) THEN 0
    ELSE IF s[i] = c THEN i
    ELSE FindFrom(s, c, i + 1)

\* str::find(char): index of the first occurrence, 0 when absent
Find(s, c) == FindFrom(s, c, 1)

Contains(s, c) == Find(s, c) # 0

Tail0(s, n) == SubSeq(s, n + 1, Len(s))

RECURSIVE FindPairFrom(_, _, _, _)
FindPairFrom(s, a, b, i) ==
    IF i + 1 > Len(s) THEN 0
    ELSE IF s[i] = a /\ s[i + 1] = b THEN i
    ELSE FindPairFrom(s, a, b, i + 1)

\* str::find("\n\n")
FindBoundary(s) == FindPairFrom(s, LF, LF, 1)

RECURSIVE Flatten(_)
Flatten(ss) == IF ss = <<>> THEN <<>> ELSE Head(ss) \o Flatten(Tail(ss))

\* ------------------------------------------------------------------------
\* std::str::from_utf8 as called at parse.rs:174
\* ------------------------------------------------------------------------
IsCont(b) == b >= 128 /\ b <= 191

\* length of the sequence a lead byte opens; 0 for a byte that opens none
Utf8Width(b) ==
    IF b < 128 THEN 1
    ELSE IF b >= 194 /\ b <= 223 THEN 2
    ELSE IF b >= 224 /\ b <= 239 THEN 3
    ELSE IF b >= 240 /\ b <= 244 THEN 4
    ELSE 0

SecondOk(b1, b2) ==
    CASE b1 = 224 -> b2 >= 160 /\ b2 <= 191
      [] b1 = 237 -> b2 >= 128 /\ b2 <= 159
      [] b1 = 240 -> b2 >= 144 /\ b2 <= 191
      [] b1 = 244 -> b2 >= 128 /\ b2 <= 143
      [] OTHER -> IsCont(b2)

CodePoint(bs) ==
    CASE Len(bs) = 1 -> bs[1]
      [] Len(bs) = 2 -> (bs[1] - 192) * 64 + (bs[2] - 128)
      [] Len(bs) = 3 -> (bs[1] - 224) * 4096 + (bs[2] - 128) * 64 + (bs[3] - 128)
      [] OTHER -> (bs[1] - 240) * 262144 + (bs[2] - 128) * 4096
                    + (bs[3] - 128) * 64 + (bs[4] - 128)

\* status "ok": all of bytes decoded; "incomplete": error_len() is None, the
\* input ends inside a sequence that is valid so far; "invalid": error_len()
\* is Some.  valid_up_to counts the bytes decoded into text.
RECURSIVE Utf8Scan(_, _, _)
Utf8Scan(bytes, i, text) ==
    IF i > Len(bytes)
    THEN [status |-> "ok", text |-> text, valid_up_to |-> Len(bytes)]
    ELSE LET b1 == bytes[i]
             w == Utf8Width(b1)
             avail == Len(bytes) - i + 1
             bad == [status |-> "invalid", text |-> text, valid_up_to |-> i - 1]
         IN  IF w = 0 THEN bad
             ELSE IF w = 1 THEN Utf8Scan(bytes, i + 1, Append(text, b1))
             ELSE IF avail >= 2 /\ ~SecondOk(b1, bytes[i + 1]) THEN bad
             ELSE IF w >= 3 /\ avail >= 3 /\ ~IsCont(bytes[i + 2]) THEN bad
             ELSE IF w = 4 /\ avail >= 4 /\ ~IsCont(bytes[i + 3]) THEN bad
             ELSE IF avail < w
             THEN [status |-> "incomplete", text |-> text, valid_up_to |-> i - 1]
             ELSE Utf8Scan(bytes, i + w,
                           Append(text, CodePoint(SubSeq(bytes, i, i + w - 1))))

\* mutant: a sequence cut off by the end of the chunk is taken as invalid
from_utf8_Strict(bytes) ==
    IF Utf8Scan(bytes, 1, <<>>).status = "incomplete"
    THEN [Utf8Scan(bytes, 1, <<>>) EXCEPT !.status = "invalid"]
    ELSE Utf8Scan(bytes, 1, <<>>)

from_utf8(bytes) == Utf8Scan(bytes, 1, <<>>)

\* ------------------------------------------------------------------------
\* ServerEvent (sse/event.rs)
\* ------------------------------------------------------------------------
\* ServerEvent::default()
DefaultEvent == [id |-> <<>>, event |-> <<>>, data |-> <<>>, retry |-> <<>>]

\* mutant: retry is not looked at
is_empty_IgnoresRetry(ev) ==
    ev.data = <<>> /\ ev.id = <<>> /\ ev.event = <<>>

is_empty(ev) ==
    ev.data = <<>> /\ ev.id = <<>> /\ ev.event = <<>> /\ ev.retry = <<>>

\* ------------------------------------------------------------------------
\* value.parse::<u64>() (parse.rs:62).  A u64 is kept as its canonical
\* decimal digits (most significant first, no leading zero), so that the
\* 64-bit range is exact.
\* ------------------------------------------------------------------------
IsDigit(c) == c >= 48 /\ c <= 57

U64MaxDigits == <<1, 8, 4, 4, 6, 7, 4, 4, 0, 7, 3, 7, 0, 9, 5, 5, 1, 6, 1, 5>>

RECURSIVE StripZeros(_)
StripZeros(ds) ==
    IF Len(ds) > 1 /\ ds[1] = 0 THEN StripZeros(Tail(ds)) ELSE ds

RECURSIVE LexLeq(_, _)
LexLeq(a, b) ==
    IF a = <<>> THEN TRUE
    ELSE IF a[1] < b[1] THEN TRUE
    ELSE IF a[1] > b[1] THEN FALSE
    ELSE LexLeq(Tail(a), Tail(b))

FitsU64(ds) ==
    \/ Len(ds) < Len(U64MaxDigits)
    \/ Len(ds) = Len(U64MaxDigits) /\ LexLeq(ds, U64MaxDigits)

\* Ok(n) is <<n>>, Err is <<>>.  from_str accepts one leading '+'.
parse_u64(value) ==
    LET body == IF value # <<>> /\ value[1] = PLUS THEN Tail(value) ELSE value
        ds == StripZeros([i \in 1..Len(body) |-> body[i] - 48])
    IN  IF body # <<>> /\ (\A i \in 1..Len(body) : IsDigit(body[i])) /\ FitsU64(ds)
        THEN <<ds>>
        ELSE <<>>

\* ------------------------------------------------------------------------
\* parse_line (parse.rs:27-71)
\* ------------------------------------------------------------------------
\* mutant: every leading space is removed
RECURSIVE strip_prefix_space_All(_)
strip_prefix_space_All(v) ==
    IF v # <<>> /\ v[1] = SPACE THEN strip_prefix_space_All(Tail(v)) ELSE v

strip_prefix_space(v) == IF v # <<>> /\ v[1] = SPACE THEN Tail(v) ELSE v

AsciiLower(s) ==
    [i \in 1..Len(s) |-> IF s[i] >= 65 /\ s[i] <= 90 THEN s[i] + 32 ELSE s[i]]

\* mutant: field names are compared without regard to letter case
parse_line_CaseInsensitive(line, event) ==
    IF line # <<>> /\ line[1] = COLON THEN event
    ELSE
      LET pos == Find(line, COLON)
          field == AsciiLower(IF pos = 0 THEN line ELSE SubSeq(line, 1, pos - 1))
          value == IF pos = 0 THEN <<>> ELSE strip_prefix_space(Tail0(line, pos))
      IN  CASE field = FieldData ->
                 [event EXCEPT !.data = IF event.data # <<>>
                                        THEN event.data \o <<LF>> \o value
                                        ELSE value]
            [] field = FieldEvent -> [event EXCEPT !.event = <<value>>]
            [] field = FieldId ->
                 IF Contains(value, NUL) THEN event
                 ELSE [event EXCEPT !.id = <<value>>]
            [] field = FieldRetry ->
                 IF parse_u64(value) # <<>>
                 THEN [event EXCEPT !.retry = parse_u64(value)]
                 ELSE event
            [] OTHER -> event

\* mutant: data values are appended without separator
parse_line_NoSeparator(line, event) ==
    IF line # <<>> /\ line[1] = COLON THEN event
    ELSE
      LET pos == Find(line, COLON)
          field == IF pos = 0 THEN line ELSE SubSeq(line, 1, pos - 1)
          value == IF pos = 0 THEN <<>> ELSE strip_prefix_space(Tail0(line, pos))
      IN  CASE field = FieldData ->
                 [event EXCEPT !.data = event.data \o value]
            [] field = FieldEvent -> [event EXCEPT !.event = <<value>>]
            [] field = FieldId ->
                 IF Contains(value, NUL) THEN event
                 ELSE [event EXCEPT !.id = <<value>>]
            [] field = FieldRetry ->
                 IF parse_u64(value) # <<>>
                 THEN [event EXCEPT !.retry = parse_u64(value)]
                 ELSE event
            [] OTHER -> event

\* mutant: an id value is not searched for NUL
parse_line_IdUnchecked(line, event) ==
    IF line # <<>> /\ line[1] = COLON THEN event
    ELSE
      LET pos == Find(line, COLON)
          field == IF pos = 0 THEN line ELSE SubSeq(line, 1, pos - 1)
          value == IF pos = 0 THEN <<>> ELSE strip_prefix_space(Tail0(line, pos))
      IN  CASE field = FieldData ->
                 [event EXCEPT !.data = IF event.data # <<>>
                                        THEN event.data \o <<LF>> \o value
                                        ELSE value]
            [] field = FieldEvent -> [event EXCEPT !.event = <<value>>]
            [] field = FieldId ->
                 [event EXCEPT !.id = <<value>>]
            [] field = FieldRetry ->
                 IF parse_u64(value) # <<>>
                 THEN [event EXCEPT !.retry = parse_u64(value)]
                 ELSE event
            [] OTHER -> event

parse_line(line, event) ==
    IF line # <<>> /\ line[1] = COLON THEN event
    ELSE
      LET pos == Find(line, COLON)
          field == IF pos = 0 THEN line ELSE SubSeq(line, 1, pos - 1)
          value == IF pos = 0 THEN <<>> ELSE strip_prefix_space(Tail0(line, pos))
      IN  CASE field = FieldData ->
                 [event EXCEPT !.data = IF event.data # <<>>
                                        THEN event.data \o <<LF>> \o value
                                        ELSE value]
            [] field = FieldEvent -> [event EXCEPT !.event = <<value>>]
            [] field = FieldId ->
                 IF Contains(value, NUL) THEN event
                 ELSE [event EXCEPT !.id = <<value>>]
            [] field = FieldRetry ->
                 IF parse_u64(value) # <<>>
                 THEN [event EXCEPT !.retry = parse_u64(value)]
                 ELSE event
            [] OTHER -> event

\* str::lines(): split after each LF, drop the LF and a CR right before it;
\* a final line ending produces no extra empty line.
RECURSIVE lines(_)
lines(s) ==
    IF s = <<>> THEN <<>>
    ELSE LET p == Find(s, LF)
         IN  IF p = 0 THEN <<s>>
             ELSE LET l == SubSeq(s, 1, p - 1)
                      l2 == IF l # <<>> /\ l[Len(l)] = CR
                            THEN SubSeq(l, 1, Len(l) - 1) ELSE l
                  IN  <<l2>> \o lines(Tail0(s, p))

RECURSIVE ParseLines(_, _)
ParseLines(ls, event) ==
    IF ls = <<>> THEN event
    ELSE ParseLines(Tail(ls), parse_line(Head(ls), event))

\* for line in block.lines() { parse_line(line, &mut event) }
ParseBlock(block) == ParseLines(lines(block), DefaultEvent)

\* ------------------------------------------------------------------------
\* normalize_line_endings (parse.rs:78-81)
\* ------------------------------------------------------------------------
RECURSIVE ReplaceCRLF(_)
ReplaceCRLF(s) ==
    IF s = <<>> THEN <<>>
    ELSE IF Len(s) >= 2 /\ s[1] = CR /\ s[2] = LF
    THEN <<LF>> \o ReplaceCRLF(Tail0(s, 2))
    ELSE <<s[1]>> \o ReplaceCRLF(Tail(s))

ReplaceCR(s) == [i \in 1..Len(s) |-> IF s[i] = CR THEN LF ELSE s[i]]

\* mutant: a bare CR is kept
normalize_line_endings_CrLfOnly(s) == ReplaceCRLF(s)

\* mutant: every CR becomes an LF, the LF of a CRLF stays
normalize_line_endings_CrOnly(s) == ReplaceCR(s)

normalize_line_endings(s) == ReplaceCR(ReplaceCRLF(s))

\* ------------------------------------------------------------------------
\* extract_events (parse.rs:85-118)
\* ------------------------------------------------------------------------
RECURSIVE trim_start_newlines(_)
trim_start_newlines(s) ==
    IF s # <<>> /\ s[1] = LF THEN trim_start_newlines(Tail(s)) ELSE s

\* mutant: the event of every block is kept
BlockEvents_KeepsEmpty(block) == <<ParseBlock(block)>>

\* the event a block contributes: <<event>> or <<>>
BlockEvents(block) ==
    IF block # <<>> /\ ~is_empty(ParseBlock(block))
    THEN <<ParseBlock(block)>>
    ELSE <<>>

RECURSIVE extract_loop(_, _)
extract_loop(buf0, events) ==
    LET pos == FindBoundary(buf0)
    IN  IF pos = 0 THEN [events |-> events, buf |-> buf0]
        ELSE extract_loop(trim_start_newlines(Tail0(buf0, pos + 1)),
                          events \o BlockEvents(SubSeq(buf0, 1, pos - 1)))

extract_events(buf0) == extract_loop(buf0, <<>>)

\* char::is_whitespace, as used by str::trim (parse.rs:149)
IsWhitespace(c) ==
    \/ c >= 9 /\ c <= 13
    \/ c \in {32, 133, 160, 5760, 8232, 8233, 8239, 8287, 12288}
    \/ c >= 8192 /\ c <= 8202

\* state.buf.trim().is_empty()
IsBlank(s) == \A i \in 1..Len(s) : IsWhitespace(s[i])

RECURSIVE strip_bom_All(_)
\* mutant: every leading U+FEFF is removed (trim_start_matches)
strip_bom_All(text) ==
    IF text # <<>> /\ text[1] = BOM THEN strip_bom_All(Tail(text)) ELSE text

strip_bom(text) == IF text # <<>> /\ text[1] = BOM THEN Tail(text) ELSE text

\* ------------------------------------------------------------------------
\* Typed layer: Result<T, StreamingError> (error.rs:55-72) and the codecs
\* ------------------------------------------------------------------------
OkResult(v) == [tag |-> "Ok", val |-> <<v>>, detail |-> ""]
ErrResult(d) == [tag |-> "Err", val |-> <<>>, detail |-> d]

\* serde_json::from_str::<u64>: a JSON number without sign, fraction or
\* leading zero that fits 64 bits
json_from_str(text) ==
    IF /\ text # <<>>
       /\ \A i \in 1..Len(text) : IsDigit(text[i])
       /\ (Len(text) > 1 => text[1] # 48)
       /\ FitsU64([i \in 1..Len(text) |-> text[i] - 48])
    THEN OkResult([i \in 1..Len(text) |-> text[i] - 48])
    ELSE ErrResult("serde_json")

\* u64::to_string
to_string(ds) == [i \in 1..Len(ds) |-> ds[i] + 48]

\* ------------------------------------------------------------------------
\* serde_json::to_string and serde_json::from_str for the T of Json<T>:
\* "json" is Json<u64>, "json_f64" Json<f64>, "json_string" Json<String>,
\* "json_option" Json<Option<Option<u64>>>, "json_map"
\* Json<BTreeMap<(u64, u64), u64>>
\* ------------------------------------------------------------------------
JsonCodecs == {"json", "json_f64", "json_string", "json_option", "json_map"}

\* the JSON literal null
JsonNull == <<110, 117, 108, 108>>

\* JSON whitespace: space, \t, \n, \r
IsJsonSpace(c) == c \in {32, 9, 10, 13}

RECURSIVE JsonTrimStart(_)
JsonTrimStart(s) ==
    IF s # <<>> /\ IsJsonSpace(Head(s)) THEN JsonTrimStart(Tail(s)) ELSE s

RECURSIVE JsonTrimEnd(_)
JsonTrimEnd(s) ==
    IF s # <<>> /\ IsJsonSpace(s[Len(s)])
    THEN JsonTrimEnd(SubSeq(s, 1, Len(s) - 1)) ELSE s

\* from_str skips whitespace before the value and allows only whitespace
\* after it
JsonTrim(s) == JsonTrimEnd(JsonTrimStart(s))

IsDigits(s) == s # <<>> /\ \A i \in 1..Len(s) : IsDigit(s[i])

\* the integer part of a JSON number: no leading zero
IsJsonInt(s) == IsDigits(s) /\ (Len(s) > 1 => s[1] # 48)

DigitsOf(s) == [i \in 1..Len(s) |-> s[i] - 48]

RECURSIVE StripTrailingZeros(_)
StripTrailingZeros(ds) ==
    IF ds # <<>> /\ ds[Len(ds)] = 0
    THEN StripTrailingZeros(SubSeq(ds, 1, Len(ds) - 1)) ELSE ds

\* an f64: a finite value is written by its shortest decimal digits (at most
\* 15 significant digits, no exponent), int "." frac with frac free of
\* trailing zeros
F64(neg, int, frac) == [class |-> "finite", neg |-> neg, int |-> int, frac |-> frac]
F64Infinity(neg) == [class |-> "infinite", neg |-> neg, int |-> <<>>, frac |-> <<>>]
F64NaN == [class |-> "nan", neg |-> FALSE, int |-> <<>>, frac |-> <<>>]

\* serde_json writes a finite float in its shortest form with at least one
\* fraction digit, and a non-finite float as null
f64_to_json(v) ==
    IF v.class # "finite" THEN JsonNull
    ELSE (IF v.neg THEN <<45>> ELSE <<>>)
         \o to_string(v.int) \o <<46>>
         \o (IF v.frac = <<>> THEN <<48>> ELSE to_string(v.frac))

\* from_str::<f64>: [-] int [. digits]; null is not a number
f64_from_json(text) ==
    LET neg == text # <<>> /\ text[1] = 45
        body == IF neg THEN Tail(text) ELSE text
        dot == Find(body, 46)
        int == IF dot = 0 THEN body ELSE SubSeq(body, 1, dot - 1)
        frac == IF dot = 0 THEN <<>> ELSE Tail0(body, dot)
    IN  IF IsJsonInt(int) /\ (dot # 0 => IsDigits(frac))
        THEN OkResult(F64(neg, DigitsOf(int), StripTrailingZeros(DigitsOf(frac))))
        ELSE ErrResult("serde_json")

\* a lower-case hexadecimal digit
HexDigit(d) == IF d < 10 THEN 48 + d ELSE 87 + d

HexValue(c) ==
    IF c >= 48 /\ c <= 57 THEN c - 48
    ELSE IF c >= 97 /\ c <= 102 THEN c - 87
    ELSE IF c >= 65 /\ c <= 70 THEN c - 55
    ELSE 16

\* serde_json's escape of one character inside a string literal
EscapeChar(c) ==
    CASE c = 34 -> <<92, 34>>
      [] c = 92 -> <<92, 92>>
      [] c = 8 -> <<92, 98>>
      [] c = 12 -> <<92, 102>>
      [] c = 10 -> <<92, 110>>
      [] c = 13 -> <<92, 114>>
      [] c = 9 -> <<92, 116>>
      [] c < 32 /\ c \notin {8, 9, 10, 12, 13} ->
            <<92, 117, 48, 48, HexDigit(c \div 16), HexDigit(c % 16)>>
      [] OTHER -> <<c>>

string_to_json(v) ==
    <<34>> \o Flatten([i \in 1..Len(v) |-> EscapeChar(v[i])]) \o <<34>>

\* the character a one-letter escape stands for, 0 if there is none
SimpleEscape(c) ==
    CASE c = 34 -> 34
      [] c = 92 -> 92
      [] c = 47 -> 47
      [] c = 98 -> 8
      [] c = 102 -> 12
      [] c = 110 -> 10
      [] c = 114 -> 13
      [] c = 116 -> 9
      [] OTHER -> 0

RECURSIVE UnescapeFrom(_, _, _)
\* the characters of a string literal from position i on, up to the closing
\* quote, which has to be the last character; \uXXXX outside the surrogates
UnescapeFrom(s, i, acc) ==
    IF i > Len(s) THEN ErrResult("serde_json")
    ELSE IF s[i] = 34
    THEN (IF i = Len(s) THEN OkResult(acc) ELSE ErrResult("serde_json"))
    ELSE IF s[i] < 32 THEN ErrResult("serde_json")
    ELSE IF s[i] # 92 THEN UnescapeFrom(s, i + 1, Append(acc, s[i]))
    ELSE IF i + 1 > Len(s) THEN ErrResult("serde_json")
    ELSE IF SimpleEscape(s[i + 1]) # 0 \/ s[i + 1] = 34
    THEN UnescapeFrom(s, i + 2, Append(acc, SimpleEscape(s[i + 1])))
    ELSE IF /\ s[i + 1] = 117
            /\ i + 5 <= Len(s)
            /\ \A k \in 2..5 : HexValue(s[i + k]) < 16
            /\ HexValue(s[i + 2]) * 16 + HexValue(s[i + 3]) \notin 216..223
    THEN UnescapeFrom(s, i + 6,
             Append(acc, HexValue(s[i + 2]) * 4096 + HexValue(s[i + 3]) * 256
                         + HexValue(s[i + 4]) * 16 + HexValue(s[i + 5])))
    ELSE ErrResult("serde_json")

\* from_str::<String>
string_from_json(text) ==
    IF text # <<>> /\ text[1] = 34 THEN UnescapeFrom(text, 2, <<>>)
    ELSE ErrResult("serde_json")

\* Option<Option<u64>>: None and Some(None) are both written as null
option_to_json(v) ==
    IF v = <<>> \/ v[1] = <<>> THEN JsonNull ELSE to_string(v[1][1])

\* from_str::<Option<Option<u64>>>: null is None, and any other text is
\* Some(Some(n)) if it is a u64
option_from_json(text) ==
    IF text = JsonNull THEN OkResult(<<>>)
    ELSE IF json_from_str(text).tag = "Ok"
    THEN OkResult(<<json_from_str(text).val>>)
    ELSE ErrResult("serde_json")

\* BTreeMap<(u64, u64), u64>: a key of a JSON object has to be a string or a
\* number, so only the empty map can be written
map_to_json(v) ==
    IF v = <<>> THEN OkResult(<<123, 125>>)
    ELSE ErrResult("key must be a string")

\* from_str::<BTreeMap<(u64, u64), u64>>: only the empty object can be read,
\* no object key is a tuple
map_from_json(text) ==
    IF /\ Len(text) >= 2
       /\ text[1] = 123
       /\ text[Len(text)] = 125
       /\ \A i \in 2..(Len(text) - 1) : IsJsonSpace(text[i])
    THEN OkResult(<<>>)
    ELSE ErrResult("serde_json")

\* serde_json::to_string(&self.0): Ok(text) or Err
serde_json_to_string(c, v) ==
    CASE c = "json" -> OkResult(to_string(v))
      [] c = "json_f64" -> OkResult(f64_to_json(v))
      [] c = "json_string" -> OkResult(string_to_json(v))
      [] c = "json_option" -> OkResult(option_to_json(v))
      [] OTHER -> map_to_json(v)

\* serde_json::from_str::<T>(text)
serde_json_from_str(c, text) ==
    CASE c = "json" -> json_from_str(JsonTrim(text))
      [] c = "json_f64" -> f64_from_json(JsonTrim(text))
      [] c = "json_string" -> string_from_json(JsonTrim(text))
      [] c = "json_option" -> option_from_json(JsonTrim(text))
      [] OTHER -> map_from_json(JsonTrim(text))

\* String -> bytes: the UTF-8 encoding of one character
\* the UTF-8 encoding of a code point
Utf8Encode(cp) ==
    IF cp < 128 THEN <<cp>>
    ELSE IF cp < 2048 THEN <<192 + (cp \div 64), 128 + (cp % 64)>>
    ELSE IF cp < 65536
    THEN <<224 + (cp \div 4096), 128 + ((cp \div 64) % 64), 128 + (cp % 64)>>
    ELSE <<240 + (cp \div 262144), 128 + ((cp \div 4096) % 64),
           128 + ((cp \div 64) % 64), 128 + (cp % 64)>>

Utf8EncodeAll(text) == Flatten([i \in 1..Len(text) |-> Utf8Encode(text[i])])

\* T::from_server_event for T = ServerEvent ("raw") and T = Json<u64>
\* (sse/stream.rs:21-39, event.rs:24-26)
from_server_event(c, ev) ==
    IF c = "raw" THEN OkResult(ev) ELSE serde_json_from_str(c, ev.data)

\* sse/stream.rs:108: r.and_then(T::from_server_event) on one parser item
MapItem(c, item) ==
    IF item.kind = "event" THEN from_server_event(c, item.ev)
    ELSE ErrResult(item.kind)

\* mutant: the typed stream ends at its first error item
MapAppend_Fused(ts, c, item) ==
    IF \E i \in 1..Len(ts) : ts[i].tag = "Err" THEN ts
    ELSE Append(ts, MapItem(c, item))

\* sse/stream.rs:108: event_stream.map(..) yields one item per parser item
MapAppend(ts, c, item) == Append(ts, MapItem(c, item))

\* ------------------------------------------------------------------------
\* Re-serialisation (sse/response.rs)
\* ------------------------------------------------------------------------
PrefixId == <<105, 100, 58, 32>>
PrefixEvent == <<101, 118, 101, 110, 116, 58, 32>>
PrefixRetry == <<114, 101, 116, 114, 121, 58, 32>>
\* mutant: no space after the colon
PrefixData_NoSpace == <<100, 97, 116, 97, 58>>

PrefixData == <<100, 97, 116, 97, 58, 32>>

RECURSIVE split(_, _)
\* str::split(c): the pieces between the separators, at least one
split(s, c) ==
    IF Find(s, c) = 0 THEN <<s>>
    ELSE <<SubSeq(s, 1, Find(s, c) - 1)>> \o split(Tail0(s, Find(s, c)), c)

\* mutant: the data is written as one line
DataLines_Single(data) == PrefixData \o data \o <<LF>>

\* response.rs:55-59: one "data: " line per line of data
DataLines(data) ==
    Flatten([i \in 1..Len(split(data, LF)) |->
                PrefixData \o split(data, LF)[i] \o <<LF>>])

\* response.rs:37-62
serialize_event(event) ==
    Utf8EncodeAll(
        (IF event.id # <<>> THEN PrefixId \o event.id[1] \o <<LF>> ELSE <<>>)
        \o (IF event.event # <<>> THEN PrefixEvent \o event.event[1] \o <<LF>>
            ELSE <<>>)
        \o (IF event.retry # <<>>
            THEN PrefixRetry \o to_string(event.retry[1]) \o <<LF>> ELSE <<>>)
        \o DataLines(event.data)
        \o <<LF>>)

\* response.rs:21-25: one body chunk per Ok(event), the error passed on
ResponseChunk(r) ==
    IF r.tag = "Ok" THEN OkResult(serialize_event(r.val[1]))
    ELSE ErrResult(r.detail)

\* ------------------------------------------------------------------------
\* Byte streams fed to the parser: up to MaxSegs segments, cut into chunks
\* at arbitrary byte offsets by the byte source.
\* ------------------------------------------------------------------------
\* line-protocol segments: fields and boundaries
TextSegments ==
    { <<100, 97, 116, 97, 58, 97, 10>>,                \* "data:a\n"
      <<100, 97, 116, 97, 58, 32, 98, 10, 10>>,        \* "data: b\n\n"
      <<10>>,                                          \* "\n"
      <<105, 100, 58, 49, 13, 10>>,                    \* "id:1\r\n"
      <<101, 118, 101, 110, 116, 58, 101>> }           \* "event:e"

\* line-protocol segments: comments, ignored lines, retry
LineSegments ==
    { <<100, 97, 116, 97, 58, 32, 98, 10, 10>>,        \* "data: b\n\n"
      <<58, 99, 13>>,                                  \* ":c\r"
      <<120, 10, 105, 100, 58, 0, 10, 114, 101, 116, 114, 121, 58, 120, 10>>,
                                                       \* "x\nid:<NUL>\nretry:x\n"
      <<114, 101, 116, 114, 121, 58, 48, 10>> }        \* "retry:0\n"

\* encoding segments
ByteSegments ==
    { <<100, 97, 116, 97, 58, 195, 169, 226, 130, 172, 240, 159, 152, 128, 10, 10>>,
                                          \* "data:<U+E9><U+20AC><U+1F600>\n\n"
      <<239, 187, 191>>,                               \* U+FEFF
      <<255>>,                                         \* never valid in UTF-8
      <<226, 130>> }                                   \* cut-off 3-byte sequence

StreamsOver(segs) ==
    { Flatten(ss) : ss \in UNION { [1..n -> segs] : n \in 0..MaxSegs } }

\* two blocks with a run of n newlines between them: "data:a" LF^n "id:1"
RunStream(n) ==
    <<100, 97, 116, 97, 58, 97>> \o [i \in 1..n |-> LF] \o <<105, 100, 58, 49>>

RunStreams == { RunStream(n) : n \in 2..MaxRun }

\* streams that end inside a multi-byte character, and a stream with an
\* invalid byte inside a block
TailStreams ==
    { \* "data:x\n\ndata:y" 0xFF "\n\n"
      <<100, 97, 116, 97, 58, 120, 10, 10, 100, 97, 116, 97, 58, 121, 255, 10, 10>>, \* "data:x\n\ndata:<U+E9>" and the first two bytes of U+20AC
      <<100, 97, 116, 97, 58, 120, 10, 10, 100, 97, 116, 97, 58, 195, 169, 226, 130>>,
      \* "data:1\n\ndata:2\n\nid:3\n" and the first three bytes of U+1F600
      <<100, 97, 116, 97, 58, 49, 10, 10, 100, 97, 116, 97, 58, 50, 10, 10,
        105, 100, 58, 51, 10, 240, 159, 152>> }

Streams ==
    StreamsOver(TextSegments) \cup StreamsOver(LineSegments)
        \cup StreamsOver(ByteSegments) \cup RunStreams \cup TailStreams

\* ------------------------------------------------------------------------
\* State
\* ------------------------------------------------------------------------
VARIABLES
    \* --- byte source (BodyStream)
    stream,        \* all bytes the source will deliver (fixed per behaviour)
    body,          \* bytes the source has not delivered yet
    \* --- ParseState (parse.rs:11-22)
    buf, pending, utf8_tail, first_chunk, done,
    \* --- the consumer's view of the unfold stream
    pc,            \* "idle": between requests, "loop": inside a request,
                   \* "ended": the stream returned None, "none": no parser
    out,           \* items yielded so far, in order
    \* --- history
    decoded,       \* text decoded so far, chunk by chunk
    norm,          \* text appended to buf so far
    errPulls,      \* the source was pulled after an error item was yielded
    flushBuf,      \* <<buf>> as it was when the end-of-stream branch ran
    splitMax,      \* most bytes of one cut-off character held back so far
    \* --- WebSocket bridge (ws/stream.rs)
    wsPath,        \* "recv" (async fn recv) or "poll_next" (impl Stream)
    codec,         \* the T of WebSocketStream<T>: "raw" or "json"
    rawLog,        \* raw items the receiver has produced so far
    chanEnded,     \* the raw receiver has returned None
    wsPc,          \* "idle", "recv": inside recv / poll_next, "none": no
                   \* WebSocket stream
    wsOut,         \* what recv / poll_next returned so far, in order
    convLog,       \* the messages from_ws_message was called with, in order
    handle,        \* "combined": one WebSocketStream, "split": a sender and
                   \* a receiver half, "closed": consumed by close, "none"
    sinkLog,       \* the messages handed to the raw sink, in order
    sendLog,       \* one record per send / close call, in call order
    duplex,        \* the caller also uses the send direction
    \* --- response handling (sse/stream.rs, sse/response.rs)
    resp,          \* the HTTP response handed to from_response: its status
                   \* and headers (its body is the byte source), or NoResp
    result,        \* what from_response returned, or NoResult
    typed,         \* items the ServerEventsStream<T> has yielded, in order
    wire,          \* chunks the re-serialised response body has produced
    \* --- one conversion through the Json<T> codec (ws/stream.rs:43-66)
    convPc,        \* "value": a typed value is at hand, "wire": a message
                   \* is at hand, "back": from_ws_message has returned,
                   \* "panicked": to_ws_message has panicked, "none": no
                   \* conversion
    convVal,       \* <<v>>: the typed value handed to to_ws_message
    convMsg,       \* <<m>>: the message handed to from_ws_message
    convRes,       \* <<r>>: what from_ws_message returned
    \* --- how the producer wrote the stream
    written,       \* <<>>, or <<[lf, styles]>>: the stream is the text lf with
                   \* its i-th line ending written in styles[i], and the
                   \* source delivers it as one chunk
    \* --- credstore Service (credstore/src/domain/service.rs)
    svcPc,         \* "ready": a Service exists, "none": no Service
    registry,      \* the TypesRegistryClient in the hub: "absent", "failing"
                   \* (list returns Err), "empty" (no instance of the
                   \* vendor), or the plugin instance it lists
    clients,       \* instance ids with a scoped plugin client in the hub
    selector,      \* GtsPluginSelector: <<>> or <<the cached instance id>>
    list_calls,    \* MockRegistry::list_calls (test_support.rs:41)
    getLog,        \* one record per Service::get call, in call order
    \* --- one block scanned line by line (parse.rs:98-102)
    blkPc,         \* "lines": a block is being scanned, "none": no block
    blkLines,      \* block.lines()
    blkAt,         \* number of lines handed to parse_line so far
    blkEvent,      \* the event under construction
    blkPrev,       \* the event as it was before the last line
    \* --- one bridge between a body stream and a raw channel, or the four
    \* --- receive paths side by side (ws/stream.rs)
    brPc,          \* "forward": forward_body_stream runs, "into_body": the
                   \* stream of into_body_stream is polled, "paths": the four
                   \* receive paths read the same channel, "none"
    brIn,          \* what the source will yield before it ends: chunk results
                   \* (forward) or raw items (into_body, paths)
    brAt,          \* number of items of brIn pulled so far
    brOut,         \* forward: the messages handed to the sink; into_body:
                   \* what the stream returned, poll by poll; paths: what
                   \* each of the four paths returned, call by call
    brRet          \* forward: <<>> or <<the Result returned>>; into_body:
                   \* <<>> or <<NoneRet>> once the stream has terminated

respVars == <<resp, result, typed, wire>>
convVars == <<convPc, convVal, convMsg, convRes>>
credVars == <<svcPc, registry, clients, selector, list_calls, getLog>>
blkVars == <<blkPc, blkLines, blkAt, blkEvent, blkPrev>>
brVars == <<brPc, brIn, brAt, brOut, brRet>>
unitVars == <<convVars, credVars, blkVars, brVars, written>>
parserVars == <<stream, body, buf, pending, utf8_tail, first_chunk, done, pc, out,
                decoded, norm, errPulls, flushBuf, splitMax>>
sseVars == <<parserVars, respVars, unitVars>>
sendVars == <<handle, sinkLog, sendLog, duplex>>
wsVars == <<wsPath, codec, rawLog, chanEnded, wsPc, wsOut, convLog, sendVars>>
vars == <<sseVars, wsVars>>

\* items of the parser's output stream
EventItem(ev) == [kind |-> "event", ev |-> ev]
DecodeErrItem == [kind |-> "decode_err", ev |-> DefaultEvent]
StreamErrItem == [kind |-> "stream_err", ev |-> DefaultEvent]

IsErrItem(it) == it.kind # "event"
HasErr(items) == \E i \in 1..Len(items) : IsErrItem(items[i])

\* parse_server_events_stream: the initial ParseState (parse.rs:129-136)
InitParseState ==
    /\ buf = <<>>
    /\ pending = <<>>
    /\ utf8_tail = <<>>
    /\ first_chunk = TRUE
    /\ done = FALSE
    /\ out = <<>>
    /\ decoded = <<>>
    /\ norm = <<>>
    /\ errPulls = FALSE
    /\ flushBuf = <<>>
    /\ splitMax = 0

InitWsState ==
    /\ rawLog = <<>>
    /\ chanEnded = FALSE
    /\ wsOut = <<>>
    /\ convLog = <<>>
    /\ sinkLog = <<>>
    /\ sendLog = <<>>

\* no response: the parser or the WebSocket stream is used directly
NoResp == [status |-> 0, headers |-> <<>>]
NoResult == [variant |-> "none", status |-> 0, headers |-> <<>>]

InitNoResp ==
    /\ resp = NoResp
    /\ result = NoResult
    /\ typed = <<>>
    /\ wire = <<>>

\* no conversion on its own: the codec is used through a stream
InitNoConv ==
    /\ convPc = "none"
    /\ convVal = <<>>
    /\ convMsg = <<>>
    /\ convRes = <<>>

\* no credstore Service
InitNoCred ==
    /\ svcPc = "none"
    /\ registry = "absent"
    /\ clients = {}
    /\ selector = <<>>
    /\ list_calls = 0
    /\ getLog = <<>>

\* no block scanned on its own
InitNoBlk ==
    /\ blkPc = "none"
    /\ blkLines = <<>>
    /\ blkAt = 0
    /\ blkEvent = DefaultEvent
    /\ blkPrev = DefaultEvent

\* no bridge
InitNoBr ==
    /\ brPc = "none"
    /\ brIn = <<>>
    /\ brAt = 0
    /\ brOut = <<>>
    /\ brRet = <<>>

InitNoUnit == InitNoConv /\ InitNoCred /\ InitNoBlk /\ InitNoBr /\ written = <<>>

\* a parser over one byte stream, cut into chunks by the source
InitSSE ==
    /\ stream \in Streams
    /\ body = stream
    /\ InitParseState
    /\ pc = "idle"
    /\ wsPath = "recv"
    /\ codec = "raw"
    /\ InitWsState
    /\ wsPc = "none"
    /\ handle = "none"
    /\ duplex = FALSE
    /\ InitNoResp
    /\ InitNoUnit

\* ------------------------------------------------------------------------
\* Streams written with chosen line endings, as in parse.rs:367-409
\* ------------------------------------------------------------------------
\* the texts, every line ending an LF
EndingTexts ==
    { \* "data:a\n\ndata:b\n\n"
      <<100, 97, 116, 97, 58, 97, 10, 10, 100, 97, 116, 97, 58, 98, 10, 10>>,
      \* "id:1\ndata:a\n\n\ndata:b"
      <<105, 100, 58, 49, 10, 100, 97, 116, 97, 58, 97, 10, 10, 10,
        100, 97, 116, 97, 58, 98>>,
      \* "\ndata:a\ndata:b\n\n"
      <<10, 100, 97, 116, 97, 58, 97, 10, 100, 97, 116, 97, 58, 98, 10, 10>> }

EndingStyles == {"lf", "crlf", "cr"}

\* one line ending as the producer writes it
Ending(style) ==
    CASE style = "lf" -> <<LF>>
      [] style = "crlf" -> <<CR, LF>>
      [] OTHER -> <<CR>>

RECURSIVE CountLF(_)
CountLF(t) ==
    IF t = <<>> THEN 0
    ELSE (IF Head(t) = LF THEN 1 ELSE 0) + CountLF(Tail(t))

RECURSIVE WriteEndings(_, _)
\* the text t with its line endings written in the styles st, in order
WriteEndings(t, st) ==
    IF t = <<>> THEN <<>>
    ELSE IF Head(t) = LF THEN Ending(Head(st)) \o WriteEndings(Tail(t), Tail(st))
    ELSE <<Head(t)>> \o WriteEndings(Tail(t), st)

\* a parser over one written text, delivered by the source as one chunk
InitEndings ==
    /\ \E t \in EndingTexts :
          \E st \in [1..CountLF(t) -> EndingStyles] :
             /\ written = <<[lf |-> t, styles |-> st]>>
             /\ stream = Utf8EncodeAll(WriteEndings(t, st))
    /\ body = stream
    /\ InitParseState
    /\ pc = "idle"
    /\ wsPath = "recv"
    /\ codec = "raw"
    /\ InitWsState
    /\ wsPc = "none"
    /\ handle = "none"
    /\ duplex = FALSE
    /\ InitNoResp
    /\ InitNoConv
    /\ InitNoCred
    /\ InitNoBlk
    /\ InitNoBr

\* ------------------------------------------------------------------------
\* Dispatch (sse/detect.rs) and ServerEventsStream::from_response
\* (sse/stream.rs:98-115)
\* ------------------------------------------------------------------------
\* "text/event-stream"
TextEventStream == <<116, 101, 120, 116, 47, 101, 118, 101, 110, 116, 45, 115, 116, 114, 101, 97, 109>>

\* HeaderMap::get: the first value stored under the name, as an Option
get(headers, name) ==
    IF \E i \in 1..Len(headers) : headers[i].name = name
    THEN <<headers[CHOOSE i \in 1..Len(headers) :
                     /\ headers[i].name = name
                     /\ \A j \in 1..(i - 1) : headers[j].name # name].value>>
    ELSE <<>>

\* HeaderValue::to_str succeeds on visible ASCII, space and tab only
to_str_ok(v) == \A i \in 1..Len(v) : v[i] = 9 \/ (v[i] >= 32 /\ v[i] <= 126)

\* str::starts_with
starts_with(s, prefix) ==
    Len(s) >= Len(prefix) /\ SubSeq(s, 1, Len(prefix)) = prefix

\* detect.rs:7-12
is_server_events_response(headers) ==
    LET v == get(headers, "content-type")
    IN  v # <<>> /\ to_str_ok(v[1]) /\ starts_with(v[1], TextEventStream)

Header(name, value) == [name |-> name, value |-> value]

\* header maps of the responses handed to from_response
HeaderMaps ==
    { <<>>,
      <<Header("content-type", TextEventStream)>>,
      \* x-request-id: 1, content-type: text/event-stream; charset=utf-8
      <<Header("x-request-id", <<49>>),
        Header("content-type", TextEventStream \o <<59, 32, 99, 104, 97, 114, 115, 101, 116, 61, 117, 116, 102, 45, 56>>)>>,
      \* application/json
      <<Header("content-type", <<97, 112, 112, 108, 105, 99, 97, 116, 105, 111, 110, 47, 106, 115, 111, 110>>)>>,
      \* Text/Event-Stream
      <<Header("content-type", <<84, 101, 120, 116, 47, 69, 118, 101, 110, 116, 45, 83, 116, 114, 101, 97, 109>>)>>,
      \* text/event-strea
      <<Header("content-type", <<116, 101, 120, 116, 47, 101, 118, 101, 110, 116, 45, 115, 116, 114, 101, 97>>)>>,
      <<Header("accept", TextEventStream)>>,
      \* text/plain, then text/event-stream
      <<Header("content-type", <<116, 101, 120, 116, 47, 112, 108, 97, 105, 110>>),
        Header("content-type", TextEventStream)>> }

\* bodies of the responses handed to from_response
RespStreams ==
    { <<>>,
      \* "data:x\n\ndata:7\n\n"
      <<100, 97, 116, 97, 58, 120, 10, 10, 100, 97, 116, 97, 58, 55, 10, 10>>,
      \* "id:1\nevent:e\nretry:5\ndata:a\ndata:b\n\n"
      <<105, 100, 58, 49, 10, 101, 118, 101, 110, 116, 58, 101, 10, 114, 101, 116, 114, 121, 58, 53, 10, 100, 97, 116, 97, 58, 97, 10, 100, 97, 116, 97, 58, 98, 10, 10>>,
      \* "id:1\n\n"
      <<105, 100, 58, 49, 10, 10>>,
      \* 0xFF "data:7\n\n"
      <<255>> \o <<100, 97, 116, 97, 58, 55, 10, 10>> }

\* a response about to be handed to from_response::<T>
InitResp ==
    /\ stream \in RespStreams
    /\ body = stream
    /\ InitParseState
    /\ pc = "resp"
    /\ wsPath = "recv"
    /\ codec \in {"raw", "json"}
    /\ InitWsState
    /\ wsPc = "none"
    /\ handle = "none"
    /\ duplex = FALSE
    /\ resp \in [status : {200, 503}, headers : HeaderMaps]
    /\ result = NoResult
    /\ typed = <<>>
    /\ wire = <<>>
    /\ InitNoUnit

\* mutant: the event stream keeps the status only
EventsHeaders_Dropped(headers) == <<>>

\* sse/stream.rs:113: headers: parts.headers
EventsHeaders(headers) == headers

\* sse/stream.rs:98-115
FromResponse ==
    /\ pc = "resp"
    /\ IF ~is_server_events_response(resp.headers)
       THEN /\ result' = [variant |-> "Response", status |-> resp.status,
                          headers |-> resp.headers]
            /\ pc' = "returned"
       ELSE /\ result' = [variant |-> "Events", status |-> resp.status,
                          headers |-> EventsHeaders(resp.headers)]
            /\ pc' = "idle"
    /\ UNCHANGED <<stream, body, buf, pending, utf8_tail, first_chunk, done, out,
                   decoded, norm, errPulls, flushBuf, splitMax>>
    /\ UNCHANGED <<resp, typed, wire>>
    /\ UNCHANGED unitVars
    /\ UNCHANGED wsVars

\* what an item yielded by the parser becomes downstream: the item of the
\* typed stream (sse/stream.rs:108, 149-151) and, for ServerEvent items, the
\* chunk of the re-serialised body (sse/stream.rs:141-143)
Downstream ==
    /\ UNCHANGED <<resp, result>>
    /\ UNCHANGED unitVars
    /\ IF result.variant = "Events" /\ out' # out
       THEN /\ typed' = MapAppend(typed, codec, out'[Len(out')])
            /\ wire' = IF codec = "raw"
                       THEN Append(wire, ResponseChunk(MapItem(codec, out'[Len(out')])))
                       ELSE wire
       ELSE UNCHANGED <<typed, wire>>

\* ------------------------------------------------------------------------
\* parse_server_events_stream: one next-item request (parse.rs:140-217)
\* ------------------------------------------------------------------------
\* the consumer polls the stream for its next item
Request ==
    /\ pc = "idle"
    /\ pc' = "loop"
    /\ UNCHANGED <<stream, body, buf, pending, utf8_tail, first_chunk, done, out,
                   decoded, norm, errPulls, flushBuf, splitMax>>
    /\ UNCHANGED wsVars
    /\ Downstream

\* mutant: the newest pending event is yielded first (pop_back)
YieldPending_Lifo ==
    /\ pc = "loop"
    /\ pending # <<>>
    /\ out' = Append(out, EventItem(pending[Len(pending)]))
    /\ pending' = SubSeq(pending, 1, Len(pending) - 1)
    /\ pc' = "idle"
    /\ UNCHANGED <<stream, body, buf, utf8_tail, first_chunk, done,
                   decoded, norm, errPulls, flushBuf, splitMax>>
    /\ UNCHANGED wsVars
    /\ Downstream

\* parse.rs:143-145
YieldPending ==
    /\ pc = "loop"
    /\ pending # <<>>
    /\ out' = Append(out, EventItem(Head(pending)))
    /\ pending' = Tail(pending)
    /\ pc' = "idle"
    /\ UNCHANGED <<stream, body, buf, utf8_tail, first_chunk, done,
                   decoded, norm, errPulls, flushBuf, splitMax>>
    /\ UNCHANGED wsVars
    /\ Downstream

\* parse.rs:149-158: the event the end-of-stream branch returns for a
\* buffer, <<event>> or <<>>
FlushEvents(b) ==
    IF ~IsBlank(b) /\ ~is_empty(ParseBlock(b)) THEN <<ParseBlock(b)>> ELSE <<>>

\* mutant: the buffer is not cleared
FlushedBuf_NoClear(b) == b

\* parse.rs:154: state.buf.clear() runs for a non-blank buffer
FlushedBuf(b) == IF ~IsBlank(b) THEN <<>> ELSE b

\* mutant: the done branch is entered only while text is buffered
CanFlush_NeedsText == pc = "loop" /\ pending = <<>> /\ done /\ buf # <<>>

\* parse.rs:143-147: inside a request the loop reaches the done branch past
\* the pending queue
CanFlush == pc = "loop" /\ pending = <<>> /\ done

\* parse.rs:147-160
Flush ==
    /\ CanFlush
    /\ flushBuf' = IF flushBuf = <<>> THEN <<buf>> ELSE flushBuf
    /\ buf' = FlushedBuf(buf)
    /\ IF FlushEvents(buf) # <<>>
       THEN /\ out' = Append(out, EventItem(FlushEvents(buf)[1]))
            /\ pc' = "idle"
       ELSE /\ out' = out
            /\ pc' = "ended"
    /\ UNCHANGED <<stream, body, pending, utf8_tail, first_chunk, done,
                   decoded, norm, errPulls, splitMax>>
    /\ UNCHANGED wsVars
    /\ Downstream

\* mutant: the text left after the last boundary is dropped
AppendText_DropsRest(text) ==
    IF text # <<>>
    THEN LET t == IF first_chunk THEN strip_bom(text) ELSE text
             r == extract_events(buf \o normalize_line_endings(t))
         IN  /\ first_chunk' = FALSE
             /\ buf' = <<>>
             /\ pending' = r.events
             /\ norm' = norm \o normalize_line_endings(t)
    ELSE UNCHANGED <<first_chunk, buf, pending, norm>>

\* parse.rs:195-205: what a decoded text does to first_chunk, buf and pending
AppendText(text) ==
    IF text # <<>>
    THEN LET t == IF first_chunk THEN strip_bom(text) ELSE text
             r == extract_events(buf \o normalize_line_endings(t))
         IN  /\ first_chunk' = FALSE
             /\ buf' = r.buf
             /\ pending' = r.events
             /\ norm' = norm \o normalize_line_endings(t)
    ELSE UNCHANGED <<first_chunk, buf, pending, norm>>

\* mutant: the held-back tail is not prepended
ChunkBytes_NoTail(tail, chunk) == chunk

\* parse.rs:166-172: the bytes to decode, the held-back tail first
ChunkBytes(tail, chunk) == tail \o chunk

\* mutant: the cut-off bytes are not kept
NextTail_Dropped(bytes) == <<>>

\* parse.rs:169, 180: the tail kept for the next chunk
NextTail(bytes) ==
    LET r == from_utf8(bytes)
    IN  IF r.status = "incomplete" THEN Tail0(bytes, r.valid_up_to) ELSE <<>>

\* mutant: the buffered text is dropped with the chunk
DecodeErrBuf_Cleared(b) == <<>>

\* parse.rs:184-191: the error return leaves state.buf as it is
DecodeErrBuf(b) == b

\* mutant: the source is pulled while events are still enqueued
CanPull_Eager == pc = "loop" /\ ~done

\* parse.rs:141-163: inside a request the loop reaches body.next() only past
\* the pending queue (143-145) and the done branch (147-160)
CanPull == pc = "loop" /\ pending = <<>> /\ ~done

\* parse.rs:163-207: the source yields Some(Ok(chunk)), the next k bytes
PullChunk(k) ==
    /\ CanPull
    /\ k \in 0..Len(body)
    /\ written # <<>> => k = Len(body)
    /\ LET bytes == ChunkBytes(utf8_tail, SubSeq(body, 1, k))
           r == from_utf8(bytes)
           tail == NextTail(bytes)
       IN  /\ body' = Tail0(body, k)
           /\ errPulls' = (errPulls \/ HasErr(out))
           /\ IF r.status = "invalid"
              THEN /\ utf8_tail' = <<>>
                   /\ out' = Append(out, DecodeErrItem)
                   /\ pc' = "idle"
                   /\ buf' = DecodeErrBuf(buf)
                   /\ UNCHANGED <<first_chunk, pending, norm, decoded,
                                  splitMax>>
              ELSE /\ utf8_tail' = tail
                   /\ splitMax' = IF Len(tail) > splitMax
                                  THEN Len(tail) ELSE splitMax
                   /\ decoded' = decoded \o r.text
                   /\ AppendText(r.text)
                   /\ out' = out
                   /\ pc' = "loop"
    /\ UNCHANGED <<stream, done, flushBuf>>
    /\ UNCHANGED wsVars
    /\ Downstream

\* parse.rs:208-211: the source yields Some(Err(e))
PullErr ==
    /\ CanPull
    /\ done' = TRUE
    /\ errPulls' = (errPulls \/ HasErr(out))
    /\ out' = Append(out, StreamErrItem)
    /\ pc' = "idle"
    /\ UNCHANGED <<stream, body, buf, pending, utf8_tail, first_chunk,
                   decoded, norm, flushBuf, splitMax>>
    /\ UNCHANGED wsVars
    /\ Downstream

\* parse.rs:212-215: the source yields None
PullEnd ==
    /\ CanPull
    /\ body = <<>>
    /\ done' = TRUE
    /\ errPulls' = (errPulls \/ HasErr(out))
    /\ pc' = "loop"
    /\ UNCHANGED <<stream, body, buf, pending, utf8_tail, first_chunk, out,
                   decoded, norm, flushBuf, splitMax>>
    /\ UNCHANGED wsVars
    /\ Downstream


\* ------------------------------------------------------------------------
\* WebSocket bridge: typed conversion (ws/stream.rs:26-66)
\* ------------------------------------------------------------------------
Msg(kind, payload) == [kind |-> kind, payload |-> payload]

\* what the raw receiver can produce: Some(Ok(message)) or Some(Err(e))
RawItems ==
    { Msg("Text", <<55>>),          \* Text("7")
      Msg("Text", <<120>>),         \* Text("x")
      Msg("Binary", <<1>>),
      Msg("Ping", <<>>),
      Msg("Pong", <<>>),
      Msg("Close", <<>>),           \* Close(None)
      Msg("Err", <<>>) }            \* Err(StreamingError)

\* what the raw receiver can produce while the caller also sends
DuplexItems == { Msg("Text", <<55>>), Msg("Close", <<>>), Msg("Err", <<>>) }

\* T::from_ws_message for T = WebSocketMessage ("raw") and T = Json<u64>
from_ws_message(c, msg) ==
    IF c = "raw" THEN OkResult(msg)
    ELSE IF msg.kind = "Text" THEN serde_json_from_str(c, msg.payload)
    ELSE ErrResult("expected Text message for JSON deserialization, got Binary")

\* one return of recv / poll_next: Some(item) or None
SomeRet(item) == [ret |-> "Some", item |-> item]
NoneRet == [ret |-> "None", item |-> ErrResult("")]

\* a WebSocketStream<T> over one raw channel
InitWS ==
    /\ stream = <<>>
    /\ body = <<>>
    /\ InitParseState
    /\ pc = "none"
    /\ wsPath \in {"recv", "poll_next"}
    /\ codec \in {"raw", "json"}
    /\ InitWsState
    /\ wsPc = "idle"
    /\ handle = "combined"
    /\ duplex \in BOOLEAN
    /\ InitNoResp
    /\ InitNoUnit

\* ------------------------------------------------------------------------
\* WebSocketStream::recv (ws/stream.rs:121-132) and
\* <WebSocketStream as Stream>::poll_next (ws/stream.rs:162-176)
\* ------------------------------------------------------------------------
\* the consumer calls recv().await / polls the stream
RecvCall ==
    /\ wsPc = "idle"
    /\ handle \in {"combined", "split"}
    /\ Len(wsOut) + Len(sendLog) <= MaxRaw
    /\ wsPc' = "recv"
    /\ UNCHANGED <<wsPath, codec, rawLog, chanEnded, wsOut, convLog, sendVars>>
    /\ UNCHANGED sseVars

\* mutant: a Close message is handed on as data
RecvArm_CloseIsData(m) ==
    CASE m.kind \in {"Ping", "Pong"} -> "continue"
      [] m.kind = "Err" -> "err"
      [] OTHER -> "data"

\* the match arm one raw item takes (ws/stream.rs:124-130, 165-174, 240-246,
\* 286-295)
RecvArm(m) ==
    CASE m.kind \in {"Ping", "Pong"} -> "continue"
      [] m.kind = "Close" -> "none"
      [] m.kind = "Err" -> "err"
      [] OTHER -> "data"

\* mutant: no arm for Ping and Pong, they reach the typed conversion
RecvStep_NoPingArm(c, m) ==
    CASE m.kind = "Close" -> <<NoneRet>>
      [] m.kind = "Err" -> <<SomeRet(ErrResult("transport"))>>
      [] OTHER -> <<SomeRet(from_ws_message(c, m))>>

\* what the loop body does with one raw item: <<>> to pull again, else the
\* value returned
RecvStep(c, m) ==
    CASE RecvArm(m) = "continue" -> <<>>
      [] RecvArm(m) = "none" -> <<NoneRet>>
      [] RecvArm(m) = "err" -> <<SomeRet(ErrResult("transport"))>>
      [] OTHER -> <<SomeRet(from_ws_message(c, m))>>

\* the raw receiver yields Some(m)
RawMsg(m) ==
    /\ wsPc = "recv"
    /\ ~chanEnded
    /\ Len(rawLog) + Len(sendLog) < MaxRaw
    /\ duplex => m \in DuplexItems
    /\ rawLog' = Append(rawLog, m)
    /\ wsOut' = wsOut \o RecvStep(codec, m)
    /\ convLog' = IF RecvArm(m) = "data" THEN Append(convLog, m) ELSE convLog
    /\ wsPc' = IF RecvStep(codec, m) = <<>> THEN "recv" ELSE "idle"
    /\ UNCHANGED <<wsPath, codec, chanEnded, sendVars>>
    /\ UNCHANGED sseVars

\* the raw receiver yields None
RawEnd ==
    /\ wsPc = "recv"
    /\ chanEnded' = TRUE
    /\ wsOut' = Append(wsOut, NoneRet)
    /\ wsPc' = "idle"
    /\ UNCHANGED <<wsPath, codec, rawLog, convLog, sendVars>>
    /\ UNCHANGED sseVars

\* the raw receiver is not ready: poll_next returns Poll::Pending
RawPending ==
    /\ wsPath = "poll_next"
    /\ wsPc = "recv"
    /\ ~chanEnded
    /\ wsPc' = "idle"
    /\ UNCHANGED <<wsPath, codec, rawLog, chanEnded, wsOut, convLog, sendVars>>
    /\ UNCHANGED sseVars

\* ------------------------------------------------------------------------
\* send (ws/stream.rs:107-115, 191-199), close (135-142), split (145-156)
\* ------------------------------------------------------------------------
\* T::to_ws_message for T = WebSocketMessage and T = Json<..>
\* (ws/stream.rs:37-39, 62-65)
\* .expect("JSON serialization should not fail") on Err: the call panics and
\* returns no message
Panic == Msg("panic", <<>>)

to_ws_message(c, v) ==
    IF c = "raw" THEN v
    ELSE IF serde_json_to_string(c, v).tag = "Ok"
    THEN Msg("Text", serde_json_to_string(c, v).val[1])
    ELSE Panic

\* the values the caller sends
SendArgs(c) ==
    IF c = "raw" THEN {Msg("Text", <<55>>), Msg("Binary", <<1>>)}
    ELSE {<<7>>, <<1, 0>>}

\* mutant: the sink's failure is swallowed
SendRet_Swallow(sinkOk) == OkResult(<<>>)

\* ws/stream.rs:109-114: the sink's result, its error mapped to
\* StreamingError::WebSocketBridge
SendRet(sinkOk) == IF sinkOk THEN OkResult(<<>>) ELSE ErrResult("sink")

\* mutant: the newest message overtakes the earlier ones
Forward_First(log, raw) == <<raw>> \o log

\* self.sink.send(raw): the message is handed to the raw sink
Forward(log, raw) == Append(log, raw)

\* one record of sendLog; at and busy say where the receive side stood
SendRec(op, arg, sinkOk, ret) ==
    [op |-> op, arg |-> arg, sinkOk |-> sinkOk, ret |-> ret,
     at |-> Len(rawLog), busy |-> (wsPc = "recv")]

\* WebSocketStream::send (&mut self, so never during a recv on the combined
\* handle) and WebSocketSender::send; the sink accepts the message or fails
Send(v, sinkOk) ==
    /\ handle \in {"combined", "split"}
    /\ handle = "combined" => wsPc = "idle"
    /\ duplex
    /\ Len(rawLog) + Len(sendLog) < MaxRaw
    /\ sinkLog' = Forward(sinkLog, to_ws_message(codec, v))
    /\ sendLog' = Append(sendLog, SendRec("send", v, sinkOk, SendRet(sinkOk)))
    /\ UNCHANGED <<wsPath, codec, rawLog, chanEnded, wsPc, wsOut, convLog, handle,
                   duplex>>
    /\ UNCHANGED sseVars

\* mutant: a normal-closure code is sent
CloseFrame_Normal == Msg("Close", <<1000>>)

\* WebSocketMessage::Close(None)
CloseFrame == Msg("Close", <<>>)

\* WebSocketStream::close(mut self)
Close(sinkOk) ==
    /\ handle = "combined"
    /\ wsPc = "idle"
    /\ duplex
    /\ sinkLog' = Forward(sinkLog, CloseFrame)
    /\ sendLog' = Append(sendLog,
                         SendRec("close", CloseFrame, sinkOk, SendRet(sinkOk)))
    /\ handle' = "closed"
    /\ UNCHANGED <<wsPath, codec, rawLog, chanEnded, wsPc, wsOut, convLog, duplex>>
    /\ UNCHANGED sseVars

\* WebSocketStream::split(self)
Split ==
    /\ handle = "combined"
    /\ wsPc = "idle"
    /\ handle' = "split"
    /\ UNCHANGED <<wsPath, codec, rawLog, chanEnded, wsPc, wsOut, convLog,
                   sinkLog, sendLog, duplex>>
    /\ UNCHANGED sseVars

\* ------------------------------------------------------------------------
\* One conversion through the Json<T> codec, as in
\* tests/usage.rs:733-776: a typed value is turned into a message
\* and the message back into a typed value, or a message is converted
\* directly
\* ------------------------------------------------------------------------
\* the typed values handed to Json(v).to_ws_message()
TypedValues(c) ==
    CASE c = "json" -> {<<0>>, <<7>>, <<1, 0>>, U64MaxDigits}
      [] c = "json_f64" ->
            {F64(FALSE, <<1>>, <<5>>), F64(TRUE, <<7>>, <<>>),
             F64(FALSE, <<0>>, <<>>), F64(FALSE, <<0>>, <<2, 5>>),
             F64Infinity(FALSE), F64Infinity(TRUE), F64NaN}
      [] c = "json_string" ->
            {<<>>,
             <<104, 101, 108, 108, 111>>,      \* hello
             <<97, 34, 98>>,                   \* a"b
             <<92, 110>>,                      \* \n written as two characters
             <<10, 9, 1>>,                     \* LF TAB U+0001
             <<233, 8364>>,                    \* U+00E9 U+20AC
             JsonNull}
      [] c = "json_option" -> {<<>>, <<<<>>>>, <<<<<<7>>>>>>, <<<<<<0>>>>>>}
      \* {} and {(1, 2): 3}
      [] OTHER -> {<<>>, <<[key |-> <<<<1>>, <<2>>>>, value |-> <<3>>]>>}

\* the messages handed to from_ws_message directly
WireMessages ==
    { Msg("Binary", <<>>),
      Msg("Binary", <<0, 1, 2>>),
      Msg("Binary", <<55>>),                   \* the bytes of "7"
      Msg("Binary", <<34, 34>>),               \* the bytes of ""
      Msg("Binary", JsonNull),
      Msg("Text", <<55>>),                     \* 7
      Msg("Text", <<32, 55, 10>>),             \* " 7\n"
      Msg("Text", <<34, 92, 117, 48, 48, 101, 57, 34>>),   \* "é"
      Msg("Text", <<49, 46, 53, 48>>),         \* 1.50
      Msg("Text", <<48, 55>>),                 \* 07
      Msg("Text", JsonNull),
      Msg("Text", <<123, 32, 125>>),           \* { }
      Msg("Text", <<>>) }

InitConv ==
    /\ stream = <<>>
    /\ body = <<>>
    /\ InitParseState
    /\ pc = "none"
    /\ wsPath = "recv"
    /\ codec \in JsonCodecs
    /\ InitWsState
    /\ wsPc = "none"
    /\ handle = "none"
    /\ duplex = FALSE
    /\ InitNoResp
    /\ \/ /\ convPc = "value"
          /\ convVal \in {<<v>> : v \in TypedValues(codec)}
          /\ convMsg = <<>>
       \/ /\ convPc = "wire"
          /\ convVal = <<>>
          /\ convMsg \in {<<m>> : m \in WireMessages}
    /\ convRes = <<>>
    /\ InitNoCred
    /\ InitNoBlk
    /\ InitNoBr
    /\ written = <<>>

\* Json(v).to_ws_message() (ws/stream.rs:62-65)
ToWsMessage ==
    /\ convPc = "value"
    /\ IF to_ws_message(codec, convVal[1]) = Panic
       THEN /\ convMsg' = <<>>
            /\ convPc' = "panicked"
       ELSE /\ convMsg' = <<to_ws_message(codec, convVal[1])>>
            /\ convPc' = "wire"
    /\ UNCHANGED <<convVal, convRes>>
    /\ UNCHANGED <<parserVars, respVars, credVars, blkVars, brVars, written>>
    /\ UNCHANGED wsVars

\* <Json<T>>::from_ws_message(msg) (ws/stream.rs:47-60)
FromWsMessage ==
    /\ convPc = "wire"
    /\ convRes' = <<from_ws_message(codec, convMsg[1])>>
    /\ convPc' = "back"
    /\ UNCHANGED <<convVal, convMsg>>
    /\ UNCHANGED <<parserVars, respVars, credVars, blkVars, brVars, written>>
    /\ UNCHANGED wsVars

\* ------------------------------------------------------------------------
\* credstore Service: lazy plugin resolution
\* (credstore/src/domain/service.rs)
\* ------------------------------------------------------------------------
\* the plugin instances a registry can list for the vendor
Instances == {"inst1", "inst2"}

RegistryStates == {"absent", "failing", "empty"} \cup Instances

\* what the plugin's get returns: Ok(None), Ok(Some(secret)), Err(Internal)
PluginRets == {OkResult(<<>>), OkResult(<<"s3cr3t">>), ErrResult("Internal")}

\* Service::resolve_plugin (service.rs:78-103)
resolve_plugin(reg) ==
    CASE reg = "absent" -> ErrResult("TypesRegistryUnavailable")
      [] reg = "failing" -> ErrResult("Internal")
      [] reg = "empty" -> ErrResult("PluginNotFound")
      [] OTHER -> OkResult(reg)

\* registry.list(..) (service.rs:88-94) is reached once hub.get has found
\* a registry client (service.rs:81-84)
ListCalls(reg) == IF reg = "absent" THEN 0 ELSE 1

\* GtsPluginSelector::get_or_init(init): the cached id, or else the
\* outcome of init, which is cached if it is Ok
get_or_init(sel, reg) ==
    IF sel # <<>> THEN [ret |-> OkResult(sel[1]), sel |-> sel, listed |-> 0]
    ELSE [ret |-> resolve_plugin(reg),
          sel |-> IF resolve_plugin(reg).tag = "Ok"
                  THEN resolve_plugin(reg).val ELSE <<>>,
          listed |-> ListCalls(reg)]

\* mutant: the plugin is resolved on every call, the selector is not used
InstanceId_Unselected(sel, reg) ==
    [ret |-> resolve_plugin(reg), sel |-> sel, listed |-> ListCalls(reg)]

\* service.rs:53: self.selector.get_or_init(|| self.resolve_plugin())
InstanceId(sel, reg) == get_or_init(sel, reg)

\* Service::get_plugin (service.rs:52-74); the client is named by the
\* instance id of its scope
get_plugin(sel, reg, cl) ==
    [ret |-> IF InstanceId(sel, reg).ret.tag = "Err"
             THEN InstanceId(sel, reg).ret
             ELSE IF InstanceId(sel, reg).ret.val[1] \in cl
             THEN OkResult(InstanceId(sel, reg).ret.val[1])
             ELSE ErrResult("PluginUnavailable"),
     sel |-> InstanceId(sel, reg).sel,
     listed |-> InstanceId(sel, reg).listed]

\* a Service over a hub, as Service::new leaves it (service.rs:37-44)
InitCred ==
    /\ stream = <<>>
    /\ body = <<>>
    /\ InitParseState
    /\ pc = "none"
    /\ wsPath = "recv"
    /\ codec = "raw"
    /\ InitWsState
    /\ wsPc = "none"
    /\ handle = "none"
    /\ duplex = FALSE
    /\ InitNoResp
    /\ InitNoConv
    /\ InitNoBlk
    /\ InitNoBr
    /\ written = <<>>
    /\ svcPc = "ready"
    /\ registry \in RegistryStates
    /\ clients \in SUBSET Instances
    /\ selector = <<>>
    /\ list_calls = 0
    /\ getLog = <<>>

\* Service::get (service.rs:113-127): get_plugin, then the plugin's get
Get(pluginRet) ==
    /\ svcPc = "ready"
    /\ Len(getLog) < MaxGets
    /\ selector' = get_plugin(selector, registry, clients).sel
    /\ list_calls' = list_calls + get_plugin(selector, registry, clients).listed
    /\ getLog' = Append(getLog,
            [unresolved |-> selector = <<>>,
             registry |-> registry,
             clients |-> clients,
             sel |-> selector',
             plugin |-> get_plugin(selector, registry, clients).ret,
             ret |-> IF get_plugin(selector, registry, clients).ret.tag = "Err"
                     THEN get_plugin(selector, registry, clients).ret
                     ELSE pluginRet,
             lists |-> list_calls'])
    /\ UNCHANGED <<svcPc, registry, clients>>
    /\ UNCHANGED <<parserVars, respVars, convVars, blkVars, brVars, written>>
    /\ UNCHANGED wsVars

\* hub.register::<dyn TypesRegistryClient>(..): the hub gets another registry
HubRegister(reg) ==
    /\ svcPc = "ready"
    /\ reg # registry
    /\ reg # "absent"
    /\ registry' = reg
    /\ UNCHANGED <<svcPc, clients, selector, list_calls, getLog>>
    /\ UNCHANGED <<parserVars, respVars, convVars, blkVars, brVars, written>>
    /\ UNCHANGED wsVars

\* hub.register_scoped::<dyn CredStorePluginClientV1>(scope, plugin)
HubRegisterScoped(inst) ==
    /\ svcPc = "ready"
    /\ inst \notin clients
    /\ clients' = clients \cup {inst}
    /\ UNCHANGED <<svcPc, registry, selector, list_calls, getLog>>
    /\ UNCHANGED <<parserVars, respVars, convVars, blkVars, brVars, written>>
    /\ UNCHANGED wsVars

\* ------------------------------------------------------------------------
\* One block scanned line by line (parse.rs:98-102): the lines of the block
\* are handed to parse_line in order, each updating the same event
\* ------------------------------------------------------------------------
\* the lines a block is made of
BlockLinePool ==
    { <<100, 97, 116, 97, 58>>,                          \* "data:"
      <<100, 97, 116, 97, 58, 97>>,                      \* "data:a"
      <<100, 97, 116, 97, 58, 32, 98>>,                  \* "data: b"
      <<105, 100, 58, 49>>,                              \* "id:1"
      <<105, 100>>,                                      \* "id"
      <<105, 100, 58, 32, 97, 0, 98>>,                   \* "id: a<NUL>b"
      <<101, 118, 101, 110, 116, 58, 101>>,              \* "event:e"
      <<58, 99>>,                                        \* ":c"
      <<114, 101, 116, 114, 121, 58, 48>>,               \* "retry:0"
      <<114, 101, 116, 114, 121, 58, 32, 48, 55>>,       \* "retry: 07"
      <<114, 101, 116, 114, 121, 58>>,                   \* "retry:"
      <<114, 101, 116, 114, 121, 58, 49, 120>>,          \* "retry:1x"
      <<114, 101, 116, 114, 121, 58, 45, 49>>,           \* "retry:-1"
      <<114, 101, 116, 114, 121, 58, 43, 53>>,           \* "retry:+5"
      <<114, 101, 116, 114, 121, 58, 32, 32, 53>>,       \* "retry:  5"
      \* "retry:18446744073709551615", the largest u64
      <<114, 101, 116, 114, 121, 58, 49, 56, 52, 52, 54, 55, 52, 52, 48, 55,
        51, 55, 48, 57, 53, 53, 49, 54, 49, 53>>,
      \* "retry:18446744073709551616"
      <<114, 101, 116, 114, 121, 58, 49, 56, 52, 52, 54, 55, 52, 52, 48, 55,
        51, 55, 48, 57, 53, 53, 49, 54, 49, 54>> }

\* lines for the split into field name and value
SplitLinePool ==
    { <<100, 97, 116, 97, 58, 97, 58, 98>>,              \* "data:a:b"
      <<100, 97, 116, 97>>,                              \* "data"
      <<101, 118, 101, 110, 116>>,                       \* "event"
      <<100, 97, 116, 97, 58, 32, 32, 50>>,              \* "data:  2"
      <<100, 97, 116, 97, 58, 9, 120>>,                  \* "data:<TAB>x"
      <<101, 118, 101, 110, 116, 58, 32, 58, 101>>,      \* "event: :e"
      <<105, 100, 58, 32, 49>>,                          \* "id: 1"
      <<114, 101, 116, 114, 121, 58, 55>>,               \* "retry:7"
      <<58, 100, 97, 116, 97, 58, 120>>,                 \* ":data:x"
      <<68, 97, 116, 97, 58, 49>>,                       \* "Data:1"
      <<100, 97, 45, 116, 97, 58, 51>>,                  \* "da-ta:3"
      <<120>>,                                           \* "x"
      <<32, 100, 97, 116, 97, 58, 49>>,                  \* " data:1"
      <<114, 101, 116, 114, 121, 32, 58, 49>>,           \* "retry :1"
      <<73, 68, 58, 50>>,                                \* "ID:2"
      <<69, 118, 101, 110, 116, 58, 101>> }              \* "Event:e"

BlocksOver(pool) == UNION { [1..n -> pool] : n \in 0..MaxLines }

\* let mut event = ServerEvent::default() (parse.rs:98) before the lines of
\* one block
InitBlock ==
    /\ stream = <<>>
    /\ body = <<>>
    /\ InitParseState
    /\ pc = "none"
    /\ wsPath = "recv"
    /\ codec = "raw"
    /\ InitWsState
    /\ wsPc = "none"
    /\ handle = "none"
    /\ duplex = FALSE
    /\ InitNoResp
    /\ InitNoConv
    /\ InitNoCred
    /\ InitNoBr
    /\ written = <<>>
    /\ blkPc = "lines"
    /\ blkLines \in BlocksOver(BlockLinePool) \cup BlocksOver(SplitLinePool)
    /\ blkAt = 0
    /\ blkEvent = DefaultEvent
    /\ blkPrev = DefaultEvent

\* one turn of the loop at parse.rs:99-101: parse_line(line, &mut event)
ParseLine ==
    /\ blkPc = "lines"
    /\ blkAt < Len(blkLines)
    /\ blkAt' = blkAt + 1
    /\ blkPrev' = blkEvent
    /\ blkEvent' = parse_line(blkLines[blkAt + 1], blkEvent)
    /\ UNCHANGED <<blkPc, blkLines>>
    /\ UNCHANGED <<parserVars, respVars, convVars, credVars, brVars, written>>
    /\ UNCHANGED wsVars

\* ------------------------------------------------------------------------
\* Specification of the streaming SDK: each behaviour drives one parser (over
\* a stream cut into chunks or over a written text in one chunk), one
\* WebSocket stream, one response handed to from_response, or one codec
\* conversion
\* ------------------------------------------------------------------------
Init == InitSSE \/ InitEndings \/ InitWS \/ InitResp \/ InitConv

Next ==
    \/ FromResponse
    \/ Request
    \/ YieldPending
    \/ Flush
    \/ \E k \in 0..Len(body) : PullChunk(k)
    \/ PullErr
    \/ PullEnd
    \/ RecvCall
    \/ \E m \in RawItems : RawMsg(m)
    \/ RawEnd
    \/ RawPending
    \/ \E v \in SendArgs(codec), sinkOk \in BOOLEAN : Send(v, sinkOk)
    \/ \E sinkOk \in BOOLEAN : Close(sinkOk)
    \/ Split
    \/ ToWsMessage
    \/ FromWsMessage

Spec == Init /\ [][Next]_vars

\* ------------------------------------------------------------------------
\* Specification of the credstore Service: each behaviour drives one Service
\* over one hub
\* ------------------------------------------------------------------------
NextCred ==
    \/ \E pluginRet \in PluginRets : Get(pluginRet)
    \/ \E reg \in RegistryStates : HubRegister(reg)
    \/ \E inst \in Instances : HubRegisterScoped(inst)

SpecCred == InitCred /\ [][NextCred]_vars

\* ------------------------------------------------------------------------
\* Bridges between body streams and the raw channel, and the four receive
\* paths (ws/stream.rs:121-132, 159-177, 202-225, 237-298)
\* ------------------------------------------------------------------------
\* no parser, no WebSocket stream under test, no other unit
InitBrRest ==
    /\ stream = <<>>
    /\ body = <<>>
    /\ InitParseState
    /\ pc = "none"
    /\ wsPath = "recv"
    /\ InitWsState
    /\ wsPc = "none"
    /\ handle = "none"
    /\ duplex = FALSE
    /\ InitNoResp
    /\ InitNoConv
    /\ InitNoCred
    /\ InitNoBlk
    /\ written = <<>>

\* what a body stream yields: Some(Ok(bytes)) or Some(Err(e))
ChunkItems ==
    { OkResult(<<100>>),                \* "d"
      OkResult(<<195, 169>>),           \* U+E9
      OkResult(<<>>),                   \* an empty chunk
      OkResult(<<255>>),                \* not UTF-8
      ErrResult("transport") }

\* ws/stream.rs:214-217: String::from_utf8(bytes.to_vec()) decides between
\* Text(text) and Binary(e.into_bytes())
chunk_message(bytes) ==
    IF from_utf8(bytes).status = "ok"
    THEN Msg("Text", from_utf8(bytes).text)
    ELSE Msg("Binary", bytes)

\* sender.forward_body_stream(stream) is called
InitForward ==
    /\ InitBrRest
    /\ codec = "raw"
    /\ brPc = "forward"
    /\ brIn \in UNION { [1..n -> ChunkItems] : n \in 0..MaxChunks }
    /\ brAt = 0
    /\ brOut = <<>>
    /\ brRet = <<>>

\* one turn of the while-let loop (ws/stream.rs:211-223): stream.next() is
\* awaited; on a chunk the message is handed to the sink, which accepts it
\* or fails
ForwardStep(sinkOk) ==
    /\ brPc = "forward"
    /\ brRet = <<>>
    /\ IF brAt = Len(brIn)
       THEN /\ brRet' = <<OkResult(<<>>)>>
            /\ UNCHANGED <<brAt, brOut>>
       ELSE /\ brAt' = brAt + 1
            /\ IF brIn[brAt + 1].tag = "Err"
               THEN /\ brRet' = <<ErrResult("stream")>>
                    /\ brOut' = brOut
               ELSE /\ brOut' = Forward(brOut, chunk_message(brIn[brAt + 1].val[1]))
                    /\ brRet' = IF sinkOk THEN <<>> ELSE <<ErrResult("sink")>>
    /\ UNCHANGED <<brPc, brIn>>
    /\ UNCHANGED <<parserVars, respVars, convVars, credVars, blkVars, written>>
    /\ UNCHANGED wsVars

\* what the raw receiver can yield to into_body_stream
BodyRawItems == RawItems \cup { Msg("Text", <<233>>) }     \* Text(U+E9)

\* mutant: Ping and Pong payloads become chunks
into_body_arm_AllData(m) ==
    CASE m.kind = "Text" -> <<SomeRet(OkResult(Utf8EncodeAll(m.payload)))>>
      [] m.kind = "Close" -> <<NoneRet>>
      [] m.kind = "Err" -> <<SomeRet(ErrResult("transport"))>>
      [] OTHER -> <<SomeRet(OkResult(m.payload))>>

\* the match arms of into_body_stream (ws/stream.rs:261-273): <<>> to pull
\* again, else the value returned.  Bytes::from(text) is the UTF-8 encoding.
into_body_arm(m) ==
    CASE m.kind = "Text" -> <<SomeRet(OkResult(Utf8EncodeAll(m.payload)))>>
      [] m.kind = "Binary" -> <<SomeRet(OkResult(m.payload))>>
      [] m.kind = "Close" -> <<NoneRet>>
      [] m.kind = "Err" -> <<SomeRet(ErrResult("transport"))>>
      [] OTHER -> <<>>

\* the loop of one poll (ws/stream.rs:260-274) from the item after at:
\* rx.next().await? returns None when the channel has ended
RECURSIVE into_body_loop(_, _)
into_body_loop(raw, at) ==
    IF at = Len(raw) THEN [at |-> at, ret |-> NoneRet]
    ELSE IF into_body_arm(raw[at + 1]) = <<>> THEN into_body_loop(raw, at + 1)
    ELSE [at |-> at + 1, ret |-> into_body_arm(raw[at + 1])[1]]

\* receiver.into_body_stream() is called
InitIntoBody ==
    /\ InitBrRest
    /\ codec = "raw"
    /\ brPc = "into_body"
    /\ brIn \in UNION { [1..n -> BodyRawItems] : n \in 0..MaxRaw }
    /\ brAt = 0
    /\ brOut = <<>>
    /\ brRet = <<>>

\* the consumer polls the body stream, which has not returned None yet
IntoBodyNext ==
    /\ brPc = "into_body"
    /\ brRet = <<>>
    /\ brAt' = into_body_loop(brIn, brAt).at
    /\ brOut' = Append(brOut, into_body_loop(brIn, brAt).ret)
    /\ brRet' = IF into_body_loop(brIn, brAt).ret = NoneRet THEN <<NoneRet>> ELSE <<>>
    /\ UNCHANGED <<brPc, brIn>>
    /\ UNCHANGED <<parserVars, respVars, convVars, credVars, blkVars, written>>
    /\ UNCHANGED wsVars

\* WebSocketStream::recv (ws/stream.rs:121-132) on one raw item
StreamRecv(c, m) ==
    IF m.kind # "Err"
    THEN CASE m.kind \in {"Ping", "Pong"} -> <<>>
           [] m.kind = "Close" -> <<NoneRet>>
           [] OTHER -> <<SomeRet(from_ws_message(c, m))>>
    ELSE <<SomeRet(ErrResult("transport"))>>

\* <WebSocketStream as Stream>::poll_next (ws/stream.rs:162-176) on one raw
\* item that is ready
StreamPollNext(c, m) ==
    IF m.kind = "Err" THEN <<SomeRet(ErrResult("transport"))>>
    ELSE CASE m.kind \in {"Ping", "Pong"} -> <<>>
           [] m.kind = "Close" -> <<NoneRet>>
           [] OTHER -> <<SomeRet(from_ws_message(c, m))>>

\* WebSocketStreamReceiver::recv (ws/stream.rs:237-248) on one raw item
ReceiverRecv(c, m) ==
    IF m.kind # "Err"
    THEN CASE m.kind \in {"Ping", "Pong"} -> <<>>
           [] m.kind = "Close" -> <<NoneRet>>
           [] OTHER -> <<SomeRet(from_ws_message(c, m))>>
    ELSE <<SomeRet(ErrResult("transport"))>>

\* mutant: the Close arm pulls again
ReceiverPollNext_CloseSkipped(c, m) ==
    IF m.kind = "Err" THEN <<SomeRet(ErrResult("transport"))>>
    ELSE CASE m.kind \in {"Ping", "Pong", "Close"} -> <<>>
           [] OTHER -> <<SomeRet(from_ws_message(c, m))>>

\* <WebSocketStreamReceiver as Stream>::poll_next (ws/stream.rs:283-297) on
\* one raw item that is ready
ReceiverPollNext(c, m) ==
    IF m.kind = "Err" THEN <<SomeRet(ErrResult("transport"))>>
    ELSE CASE m.kind \in {"Ping", "Pong"} -> <<>>
           [] m.kind = "Close" -> <<NoneRet>>
           [] OTHER -> <<SomeRet(from_ws_message(c, m))>>

\* the four paths, each over its own copy of the same raw channel
InitPaths ==
    /\ InitBrRest
    /\ codec \in {"raw", "json"}
    /\ brPc = "paths"
    /\ brIn \in UNION { [1..n -> RawItems] : n \in 0..MaxRaw }
    /\ brAt = 0
    /\ brOut = <<<<>>, <<>>, <<>>, <<>>>>
    /\ brRet = <<>>

\* each channel yields its next item to the path reading it; receiver.next()
\* and poll_next of an ended channel yield None (ws/stream.rs:123, 166, 239,
\* 287)
PathsStep ==
    /\ brPc = "paths"
    /\ brAt <= Len(brIn)
    /\ brAt' = brAt + 1
    /\ brOut' = IF brAt = Len(brIn)
                THEN [i \in 1..4 |-> Append(brOut[i], NoneRet)]
                ELSE << brOut[1] \o StreamRecv(codec, brIn[brAt + 1]),
                        brOut[2] \o StreamPollNext(codec, brIn[brAt + 1]),
                        brOut[3] \o ReceiverRecv(codec, brIn[brAt + 1]),
                        brOut[4] \o ReceiverPollNext(codec, brIn[brAt + 1]) >>
    /\ UNCHANGED <<brPc, brIn, brRet>>
    /\ UNCHANGED <<parserVars, respVars, convVars, credVars, blkVars, written>>
    /\ UNCHANGED wsVars

\* ------------------------------------------------------------------------
\* Events of the parser written by serialize_event and parsed again
\* (sse/response.rs:21-62, sse/parse.rs:27-118)
\* ------------------------------------------------------------------------
Items(evs) == [i \in 1..Len(evs) |-> EventItem(evs[i])]

\* The items the parser yields when bytes arrive as one single chunk and the
\* source then ends.
OneShotItems(bytes) ==
    LET r == from_utf8(bytes)
        e == extract_events(normalize_line_endings(strip_bom(r.text)))
    IN  IF r.status = "invalid" THEN <<DecodeErrItem>>
        ELSE Items(e.events \o FlushEvents(e.buf))

\* lines of the blocks the events are parsed from
RoundLinePool ==
    { <<100, 97, 116, 97, 58>>,                          \* "data:"
      <<100, 97, 116, 97, 58, 32, 97>>,                  \* "data: a"
      <<100, 97, 116, 97, 58, 32, 32, 98>>,              \* "data:  b"
      <<100, 97, 116, 97, 58, 233, 9>>,                  \* "data:" U+E9 TAB
      <<105, 100, 58, 32, 49>>,                          \* "id: 1"
      <<105, 100, 58>>,                                  \* "id:"
      <<101, 118, 101, 110, 116, 58, 32, 32, 101>>,      \* "event:  e"
      <<114, 101, 116, 114, 121, 58, 32, 48, 55>> }      \* "retry: 07"

\* the non-empty events parse_line builds from blocks of these lines
RoundEvents ==
    { ev \in { ParseLines(ls, DefaultEvent) : ls \in BlocksOver(RoundLinePool) } :
        ~is_empty(ev) }

\* the events written one after the other: an empty id and no data, data
\* with a leading space and a trailing newline, a retry only, a type only
RoundSeqEvents ==
    { ParseLines(<<<<105, 100, 58>>>>, DefaultEvent),
      ParseLines(<<<<100, 97, 116, 97, 58, 32, 32, 98>>, <<100, 97, 116, 97, 58>>>>, DefaultEvent),
      ParseLines(<<<<114, 101, 116, 114, 121, 58, 32, 48, 55>>>>, DefaultEvent),
      ParseLines(<<<<101, 118, 101, 110, 116, 58, 32, 32, 101>>>>, DefaultEvent) }

\* a stream of events handed to server_events_response
InitRound ==
    /\ InitBrRest
    /\ codec = "raw"
    /\ brPc = "round"
    /\ brIn \in { <<ev>> : ev \in RoundEvents }
                \cup UNION { [1..n -> RoundSeqEvents] : n \in 0..MaxEvents }
    /\ brAt = 0
    /\ brOut = <<>>
    /\ brRet = <<>>

\* response.rs:21-25: the next event of the stream becomes one body chunk
SerializeEvent ==
    /\ brPc = "round"
    /\ brAt < Len(brIn)
    /\ brAt' = brAt + 1
    /\ brOut' = Append(brOut, ResponseChunk(OkResult(brIn[brAt + 1])).val[1])
    /\ UNCHANGED <<brPc, brIn, brRet>>
    /\ UNCHANGED <<parserVars, respVars, convVars, credVars, blkVars, written>>
    /\ UNCHANGED wsVars

\* the body, complete, is parsed again
ParseBack ==
    /\ brPc = "round"
    /\ brAt = Len(brIn)
    /\ brRet = <<>>
    /\ brRet' = <<OneShotItems(Flatten(brOut))>>
    /\ UNCHANGED <<brPc, brIn, brAt, brOut>>
    /\ UNCHANGED <<parserVars, respVars, convVars, credVars, blkVars, written>>
    /\ UNCHANGED wsVars

NextRound == SerializeEvent \/ ParseBack

SpecRound == InitRound /\ [][NextRound]_vars

\* ------------------------------------------------------------------------
\* Specification of the parser over a finite byte source, with a consumer
\* that keeps requesting items: the unfold closure runs to its next return
\* (parse.rs:141-217), and the source delivers finitely many chunks before
\* it ends or fails
\* ------------------------------------------------------------------------
InitLive == InitSSE /\ Len(stream) <= MaxLiveLen

\* the source delivers a non-empty chunk, fails or ends
PullProgress ==
    \/ \E k \in 1..Len(body) : PullChunk(k)
    \/ PullErr
    \/ PullEnd

NextLive ==
    \/ Request
    \/ YieldPending
    \/ Flush
    \/ \E k \in 0..Len(body) : PullChunk(k)
    \/ PullErr
    \/ PullEnd

\* Weak fairness of Request (the consumer keeps requesting), of the closure's
\* branches YieldPending and Flush (the closure runs on), and of PullProgress
\* (the source is finite).  Flush is enabled and leaves pc = "loop" exactly
\* when CanFlush holds, and PullProgress is enabled and changes body or done
\* exactly when CanPull holds (PullErr is possible at every pull), so their
\* weak fairness is written out over these guards.
SpecLive ==
    /\ InitLive
    /\ [][NextLive]_vars
    /\ WF_vars(Request)
    /\ WF_vars(YieldPending)
    /\ (<>[]CanFlush => []<><<Flush>>_vars)
    /\ (<>[]CanPull => []<><<PullProgress>>_vars)

\* ------------------------------------------------------------------------
\* Specification of the bridges: each behaviour runs forward_body_stream
\* once, polls one stream made by into_body_stream, or drives the four
\* receive paths over the same raw items
\* ------------------------------------------------------------------------
InitBridge == InitForward \/ InitIntoBody \/ InitPaths

NextBridge ==
    \/ \E sinkOk \in BOOLEAN : ForwardStep(sinkOk)
    \/ IntoBodyNext
    \/ PathsStep

SpecBridge == InitBridge /\ [][NextBridge]_vars

\* ------------------------------------------------------------------------
\* Specification of the field-line parser: each behaviour scans one block
\* ------------------------------------------------------------------------
NextBlock == ParseLine

SpecBlock == InitBlock /\ [][NextBlock]_vars

\* ========================================================================
\* Properties
\* ========================================================================
\* the bytes the source has delivered so far
Fed == SubSeq(stream, 1, Len(stream) - Len(body))

\* the whole stream is well-formed UTF-8
StreamValid == from_utf8(stream).status = "ok"

HasKind(items, kind) == \E i \in 1..Len(items) : items[i].kind = kind

RECURSIVE EventsOf(_)
\* the events among the items, in order
EventsOf(items) ==
    IF items = <<>> THEN <<>>
    ELSE IF Head(items).kind = "event"
    THEN <<Head(items).ev>> \o EventsOf(Tail(items))
    ELSE EventsOf(Tail(items))

\* C1: chunk-boundary invariance.  Once the sequence has ended over a
\* well-formed stream without transport error, the items yielded are those of
\* the same bytes supplied as one single chunk, however the source cut them.
C1_ChunkInvariance ==
    (pc = "ended" /\ StreamValid /\ ~HasKind(out, "stream_err"))
        => out = OneShotItems(stream)

\* what the raw items received so far make recv / poll_next return as Some:
\* one item per Text, Binary or channel error, in channel order
RECURSIVE ExpectedWsItems(_, _)
ExpectedWsItems(c, raws) ==
    IF raws = <<>> THEN <<>>
    ELSE LET m == Head(raws)
             here == IF m.kind \in {"Text", "Binary"} THEN <<from_ws_message(c, m)>>
                     ELSE IF m.kind = "Err" THEN <<ErrResult("transport")>>
                     ELSE <<>>
         IN  here \o ExpectedWsItems(c, Tail(raws))

RECURSIVE SomeItems(_)
\* the items among the returns of recv / poll_next, in order
SomeItems(rets) ==
    IF rets = <<>> THEN <<>>
    ELSE IF Head(rets).ret = "Some"
    THEN <<Head(rets).item>> \o SomeItems(Tail(rets))
    ELSE SomeItems(Tail(rets))

\* C2: strict FIFO delivery.  The events yielded so far, followed by the
\* pending ones, are exactly the events of the text received so far in the
\* order of their terminating boundaries (then the flushed one), and the
\* items the WebSocket receive side has returned are exactly those of the raw
\* items in channel order: nothing reordered, duplicated or delivered twice.
C2_StrictFifo ==
    /\ pc # "none" =>
         EventsOf(out) \o pending
           = extract_events(norm).events
               \o (IF flushBuf = <<>> THEN <<>> ELSE FlushEvents(flushBuf[1]))
    /\ wsPc # "none" => SomeItems(wsOut) = ExpectedWsItems(codec, rawLog)

\* two different events that arrived in one chunk were yielded in order
C2_Witness ==
    /\ Len(out) >= 2
    /\ out[1].kind = "event" /\ out[2].kind = "event"
    /\ out[1] # out[2]
    /\ Len(stream) - Len(body) >= 2
    /\ extract_events(norm).events = <<out[1].ev, out[2].ev>>

\* C3: a truly invalid UTF-8 sequence yields exactly one error item and the
\* sequence then ends: the error item stays the last item, the parser does
\* not go on to pull the source, and nothing more is yielded.
C3_DecodeErrorEndsSequence ==
    HasKind(out, "decode_err") =>
        /\ out[Len(out)].kind = "decode_err"
        /\ Cardinality({i \in 1..Len(out) : out[i].kind = "decode_err"}) = 1
        /\ ~errPulls

\* C4: a transport error yields exactly one error item and the parser stops:
\* the error item stays the last item (no event flushed from the buffer) and
\* the source is not pulled again.  Stated for runs without decode error, so
\* that what happens after a decode error is left to C3.
C4_TransportErrorStops ==
    (HasKind(out, "stream_err") /\ ~HasKind(out, "decode_err")) =>
        /\ out[Len(out)].kind = "stream_err"
        /\ Cardinality({i \in 1..Len(out) : out[i].kind = "stream_err"}) = 1
        /\ ~errPulls

IsPrefix(a, b) == Len(a) <= Len(b) /\ SubSeq(b, 1, Len(a)) = a

\* C5: over a well-formed stream without transport error the parser never
\* ends early: when it returns end-of-sequence the source has delivered every
\* byte and has ended, every byte has been decoded, nothing is pending, and
\* the events of all blocks completed by a blank-line boundary in the text
\* received have been yielded.
C5_NeverEndsEarly ==
    (pc = "ended" /\ StreamValid /\ ~HasKind(out, "stream_err")) =>
        /\ done
        /\ body = <<>>
        /\ utf8_tail = <<>>
        /\ pending = <<>>
        /\ decoded = from_utf8(stream).text
        /\ IsPrefix(extract_events(norm).events, EventsOf(out))

\* the sequence ended over a well-formed stream with a completed block
C5_Witness ==
    /\ pc = "ended"
    /\ StreamValid
    /\ ~HasKind(out, "stream_err")
    /\ extract_events(norm).events # <<>>
    /\ Len(norm) > Len(flushBuf[1])

\* the blocks of a text: the runs of lines between blank-line boundaries, and
\* the run after the last boundary
RECURSIVE TextBlocks(_)
TextBlocks(t) ==
    IF FindBoundary(t) = 0 THEN (IF t = <<>> THEN <<>> ELSE <<t>>)
    ELSE <<SubSeq(t, 1, FindBoundary(t) - 1)>>
           \o TextBlocks(trim_start_newlines(Tail0(t, FindBoundary(t) + 1)))

\* the line sets one of id, event, retry, or adds non-empty data
LineSetsField(line) ==
    /\ ~(line # <<>> /\ line[1] = COLON)
    /\ LET pos == Find(line, COLON)
           name == IF pos = 0 THEN line ELSE SubSeq(line, 1, pos - 1)
           raw == IF pos = 0 THEN <<>> ELSE Tail0(line, pos)
           value == IF raw # <<>> /\ raw[1] = SPACE THEN Tail(raw) ELSE raw
       IN  \/ name = FieldData /\ value # <<>>
           \/ name = FieldEvent
           \/ name = FieldId /\ ~Contains(value, NUL)
           \/ name = FieldRetry /\ parse_u64(value) # <<>>

BlockSetsField(block) ==
    \E i \in 1..Len(lines(block)) : LineSetsField(lines(block)[i])

SettingBlocks(t) == SelectSeq(TextBlocks(t), BlockSetsField)

\* C6: an event is surfaced if and only if it is non-empty.  No empty event
\* is ever pending or yielded, and once the sequence has ended without
\* transport error the events yielded correspond one to one, in order, to the
\* blocks of the text received that set at least one of id, event, retry or
\* non-empty data.
C6_SurfacedIffNonEmpty ==
    pc # "none" =>
        /\ \A i \in 1..Len(out) : out[i].kind = "event" => ~is_empty(out[i].ev)
        /\ \A i \in 1..Len(pending) : ~is_empty(pending[i])
        /\ (pc = "ended" /\ ~HasKind(out, "stream_err")) =>
             /\ Len(EventsOf(out)) = Len(SettingBlocks(norm))
             /\ \A i \in 1..Len(EventsOf(out)) :
                    EventsOf(out)[i] = ParseBlock(SettingBlocks(norm)[i])

\* a block holding a comment and "retry:0" gave one event without data
C6_Witness ==
    /\ pc = "ended"
    /\ norm # <<>> /\ norm[1] = COLON
    /\ out = <<EventItem([DefaultEvent EXCEPT !.retry = <<<<0>>>>])>>

\* C7: flush at end of source.  Once the end-of-stream branch has run on a
\* non-blank buffer after the source ended, the buffer is empty, nothing is
\* pending, and the events yielded are those of the completed blocks followed
\* by the event the buffer gives when parsed as a boundary-terminated block,
\* once if non-empty; nothing is yielded after it.
C7_FlushAtEnd ==
    (flushBuf # <<>> /\ ~HasKind(out, "stream_err") /\ ~IsBlank(flushBuf[1])) =>
        /\ buf = <<>>
        /\ pending = <<>>
        /\ EventsOf(out) = extract_events(norm).events
                             \o extract_events(flushBuf[1] \o <<LF, LF>>).events

\* the sequence ended after a trailing event without blank line was flushed
C7_Witness ==
    /\ pc = "ended"
    /\ flushBuf # <<>>
    /\ ~IsBlank(flushBuf[1])
    /\ ~HasKind(out, "stream_err")
    /\ Len(out) >= 2
    /\ out[Len(out)] = EventItem(ParseBlock(flushBuf[1]))

\* C8: parsing-level malformations never escalate.  Over a well-formed
\* stream without transport error no error item is yielded, whatever the
\* lines contain and however the source cuts the bytes.
C8_NoErrorOnValidInput ==
    (StreamValid /\ ~HasKind(out, "stream_err")) => ~HasErr(out)

\* the sequence ended without error over a stream with an unknown field
\* without colon, a NUL in an id and a bad retry value
C8_Witness ==
    /\ pc = "ended"
    /\ ~HasErr(out)
    /\ Contains(stream, NUL)
    /\ IsPrefix(<<120, 10>>, stream)
    /\ Len(stream) > 15


\* C9: a multi-byte character cut by chunk boundaries is reconstructed.  As
\* long as no decode error occurred, the text decoded so far followed by the
\* held-back bytes is byte for byte what the source delivered (nothing lost,
\* duplicated or replaced); a well-formed stream gives no decode error however
\* it is cut; and over a well-formed stream without CR the items yielded are
\* those of the uncut stream, so the character is in the event data once.
C9_MultibyteReassembled ==
    /\ (pc # "none" /\ ~HasKind(out, "decode_err")) =>
           Utf8EncodeAll(decoded) \o utf8_tail = Fed
    /\ StreamValid => ~HasKind(out, "decode_err")
    /\ (pc = "ended" /\ StreamValid /\ ~HasKind(out, "stream_err")
          /\ ~Contains(stream, CR)) => out = OneShotItems(stream)

\* U+E9, U+20AC and U+1F600 arrived in the data of an event although three
\* bytes of one character had been held back between chunks
C9_Witness ==
    /\ pc = "ended"
    /\ splitMax = 3
    /\ ~HasErr(out)
    /\ \E i \in 1..Len(out) : out[i].ev.data = <<233, 8364, 128512>>

RECURSIVE UntilNone(_)
\* the returns before the first None
UntilNone(rets) ==
    IF rets = <<>> \/ Head(rets).ret = "None" THEN <<>>
    ELSE <<Head(rets)>> \o UntilNone(Tail(rets))

RECURSIVE BeforeClose(_)
\* the raw messages before the first Close
BeforeClose(raws) ==
    IF raws = <<>> \/ Head(raws).kind = "Close" THEN <<>>
    ELSE <<Head(raws)>> \o BeforeClose(Tail(raws))

IsData(m) == m.kind \in {"Text", "Binary"}

\* C10: without channel errors, the items of the WebSocket receive sequence
\* (what recv / poll_next return up to the first None) are exactly the Text
\* and Binary messages received before the first Close, each passed through
\* the typed conversion, in arrival order; Ping and Pong are never yielded.
C10_RecvYieldsDataBeforeClose ==
    (wsPc # "none" /\ ~HasKind(rawLog, "Err")) =>
        LET data == SelectSeq(BeforeClose(rawLog), IsData)
            items == UntilNone(wsOut)
        IN  /\ Len(items) = Len(data)
            /\ \A i \in 1..Len(items) :
                   items[i] = SomeRet(from_ws_message(codec, data[i]))

\* Ping, Text("7"), Close gave exactly one item and then end-of-sequence
C10_Witness ==
    /\ rawLog = <<Msg("Ping", <<>>), Msg("Text", <<55>>), Msg("Close", <<>>)>>
    /\ codec = "json"
    /\ wsOut = <<SomeRet(OkResult(<<7>>)), NoneRet>>

\* C11: a Close message terminates the receive sequence.  The call that
\* pulls the Close returns None, no Close is ever surfaced as an item, and
\* once a call has returned None every later call returns None too, whatever
\* the raw channel delivers afterwards.
C11_CloseTerminates ==
    wsPc # "none" =>
        /\ \A i \in 1..Len(wsOut) :
              (wsOut[i].ret = "Some" /\ wsOut[i].item.tag = "Ok" /\ codec = "raw")
                  => wsOut[i].item.val[1].kind # "Close"
        /\ \A i \in 1..Len(wsOut) : \A j \in (i + 1)..Len(wsOut) :
              wsOut[i].ret = "None" => wsOut[j].ret = "None"

\* C12: control frames never reach the typed conversion.  On recv and
\* poll_next, of the combined handle and of the split receiver, the messages
\* from_ws_message was called with are exactly the Text and Binary messages
\* the raw channel delivered, in order; never a Ping, a Pong or a Close.
C12_ControlFramesFiltered ==
    wsPc # "none" =>
        /\ \A i \in 1..Len(convLog) : convLog[i].kind \in {"Text", "Binary"}
        /\ convLog = SelectSeq(rawLog, IsData)

\* the split receiver, polled as a Stream, saw a Ping, a data message and a
\* Close, and converted the data message only
C12_Witness ==
    /\ handle = "split"
    /\ wsPath = "poll_next"
    /\ HasKind(rawLog, "Ping")
    /\ HasKind(rawLog, "Close")
    /\ Len(convLog) = 1
    /\ wsPc = "idle"

\* C13: a transport error of the raw receive channel is yielded as one error
\* item and ends the receive direction: every return after that error item
\* is None.
C13_TransportErrorEndsReceive ==
    wsPc # "none" =>
        \A i \in 1..Len(wsOut) : \A j \in (i + 1)..Len(wsOut) :
            (wsOut[i].ret = "Some" /\ wsOut[i].item = ErrResult("transport"))
                => wsOut[j].ret = "None"

\* the text is a JSON unsigned number: decimal digits, no leading zero
IsJsonNumber(text) ==
    /\ text # <<>>
    /\ \A i \in 1..Len(text) : IsDigit(text[i])
    /\ (Len(text) > 1 => text[1] # 48)

\* the typed item is the one the payload text calls for under the codec
TypedAsPayload(c, item, text, raw) ==
    IF c = "raw" THEN item = OkResult(raw)
    ELSE IF IsJsonNumber(text)
    THEN item.tag = "Ok" /\ to_string(item.val[1]) = text
    ELSE item.tag = "Err"

IsDataOrErr(m) == m.kind \in {"Text", "Binary", "Err"}

\* C14: a typed-conversion failure is a per-item error.  The typed SSE stream
\* has exactly one item per parser item, at the same position: the converted
\* event, or an error item where the conversion fails or the parser item is
\* an error.  The WebSocket receive side has one item per Text, Binary or
\* channel error, at the same position.  Items after a failed conversion are
\* converted and delivered as if it had not happened.
C14_ConversionErrorPerItem ==
    /\ result.variant = "Events" =>
         /\ Len(typed) = Len(out)
         /\ \A i \in 1..Len(typed) :
               IF out[i].kind = "event"
               THEN TypedAsPayload(codec, typed[i], out[i].ev.data, out[i].ev)
               ELSE typed[i].tag = "Err"
    /\ wsPc # "none" =>
         /\ Len(SomeItems(wsOut)) = Len(SelectSeq(rawLog, IsDataOrErr))
         /\ \A i \in 1..Len(SomeItems(wsOut)) :
               LET m == SelectSeq(rawLog, IsDataOrErr)[i]
               IN  IF m.kind = "Text"
                   THEN TypedAsPayload(codec, SomeItems(wsOut)[i], m.payload, m)
                   ELSE IF m.kind = "Binary" /\ codec = "raw"
                   THEN SomeItems(wsOut)[i] = OkResult(m)
                   ELSE SomeItems(wsOut)[i].tag = "Err"

\* the JSON-typed event stream yielded an error item for an event whose data
\* is not JSON and then the value of the next event
C14_Witness ==
    /\ result.variant = "Events"
    /\ codec = "json"
    /\ Len(typed) = 2
    /\ out[1].kind = "event" /\ typed[1].tag = "Err"
    /\ out[2].kind = "event" /\ typed[2] = OkResult(<<7>>)

\* a step in which a send call on the sink failed
FailedSendStep ==
    /\ Len(sendLog') = Len(sendLog) + 1
    /\ sendLog'[Len(sendLog')].op = "send"
    /\ ~sendLog'[Len(sendLog')].sinkOk

\* C15: a send whose forwarding to the sink fails returns an error to its
\* caller, and it does not close the stream: the handle stays usable and
\* nothing of the receive side changes.
C15_SendErrorSurfaced ==
    [][FailedSendStep =>
          /\ sendLog'[Len(sendLog')].ret.tag = "Err"
          /\ handle' = handle
          /\ handle' \in {"combined", "split"}
          /\ UNCHANGED <<rawLog, chanEnded, wsPc, wsOut, convLog>>]_vars

\* on one combined handle a send failed, a later send succeeded and a recv
\* called after the failure returned a message
C15_Witness ==
    /\ handle = "combined"
    /\ Len(sendLog) = 2
    /\ sendLog[1].op = "send" /\ sendLog[1].ret.tag = "Err"
    /\ sendLog[2].op = "send" /\ sendLog[2].ret.tag = "Ok"
    /\ Len(rawLog) > sendLog[1].at
    /\ wsOut # <<>>
    /\ wsOut[Len(wsOut)].ret = "Some"
    /\ wsOut[Len(wsOut)].item.tag = "Ok"

\* the message the sink was handed for a send of v
IsSentAs(c, v, raw) ==
    IF c = "raw" THEN raw = v
    ELSE raw.kind = "Text" /\ raw.payload = to_string(v)

\* C16: a graceful close hands exactly one message to the sink, a Close
\* with no code and no reason, after the messages of all earlier sends; it
\* returns an error exactly when the sink fails; and it consumes the handle:
\* no send, recv or raw pull follows it.
C16_GracefulClose ==
    handle = "closed" =>
        LET n == Len(sendLog)
        IN  /\ n >= 1
            /\ sendLog[n].op = "close"
            /\ \A i \in 1..(n - 1) : sendLog[i].op = "send"
            /\ Len(sinkLog) = n
            /\ sinkLog[n] = Msg("Close", <<>>)
            /\ \A i \in 1..(n - 1) :
                  /\ sinkLog[i].kind # "Close"
                  /\ IsSentAs(codec, sendLog[i].arg, sinkLog[i])
            /\ (sendLog[n].ret.tag = "Err") <=> ~sendLog[n].sinkOk
            /\ wsPc = "idle"
            /\ Len(rawLog) = sendLog[n].at

\* a handle was closed after one send, and the sink failed on the Close
C16_Witness ==
    /\ handle = "closed"
    /\ Len(sendLog) = 2
    /\ sendLog[1].ret.tag = "Ok"
    /\ sendLog[2].ret.tag = "Err"
    /\ sinkLog[1].kind = "Text"

\* C17: after split the two halves are independent.  In every interleaving
\* of sends on the sender with recv / poll_next on the receiver, the sink is
\* handed the converted arguments of the send calls in call order, the items
\* received are those of the raw channel as one unsplit handle receives them,
\* no send step changes anything of the receive side and no receive step
\* changes anything of the send side.
C17_SplitHalvesIndependent ==
    /\ [](handle = "split" =>
            /\ Len(sinkLog) = Len(sendLog)
            /\ \A i \in 1..Len(sendLog) :
                  IsSentAs(codec, sendLog[i].arg, sinkLog[i])
            /\ SomeItems(wsOut) = ExpectedWsItems(codec, rawLog))
    /\ [][handle = "split" =>
            /\ sendLog' # sendLog =>
                  UNCHANGED <<rawLog, chanEnded, wsPc, wsOut, convLog>>
            /\ <<rawLog, chanEnded, wsPc, wsOut>>' # <<rawLog, chanEnded, wsPc, wsOut>>
                  => UNCHANGED <<sinkLog, sendLog>>]_vars

\* on split halves two different messages were sent, the first while a recv
\* was in progress, and that recv then returned a message
C17_Witness ==
    /\ handle = "split"
    /\ wsPath = "recv"
    /\ Len(sendLog) = 2
    /\ sendLog[1].arg # sendLog[2].arg
    /\ sendLog[1].busy
    /\ Len(wsOut) = 1 /\ wsOut[1].ret = "Some" /\ wsOut[1].item.tag = "Ok"
    /\ Len(rawLog) = 1 /\ sendLog[1].at = 0

\* ASCII lower case
ToLower(s) ==
    [i \in 1..Len(s) |-> IF s[i] >= 65 /\ s[i] <= 90 THEN s[i] + 32 ELSE s[i]]

\* C18: the dispatch predicate.  from_response takes the event-stream path
\* if and only if a Content-Type header is present and its value, compared
\* without regard to case, starts with text/event-stream.
C18_DispatchPredicate ==
    result.variant # "none" =>
        ((result.variant = "Events")
            <=> /\ get(resp.headers, "content-type") # <<>>
                /\ starts_with(ToLower(get(resp.headers, "content-type")[1]),
                               TextEventStream))

\* C19: from_response leaves a non-SSE response untouched.  A response the
\* predicate rejects is returned with its status and headers and with no
\* byte of its body pulled; a response it accepts becomes an event stream
\* with the same status and headers, and no byte of the body is pulled before
\* the consumer requests the first item.
C19_FromResponseFrame ==
    /\ pc = "resp" => body = stream /\ out = <<>>
    /\ result.variant = "Response" =>
         /\ ~is_server_events_response(resp.headers)
         /\ result.status = resp.status
         /\ result.headers = resp.headers
         /\ body = stream
         /\ out = <<>> /\ decoded = <<>> /\ buf = <<>> /\ ~done
    /\ result.variant = "Events" =>
         /\ is_server_events_response(resp.headers)
         /\ result.status = resp.status
         /\ result.headers = resp.headers
         /\ (pc = "idle" /\ out = <<>>) =>
               body = stream /\ decoded = <<>> /\ buf = <<>> /\ ~done

\* a 503 response with a JSON content type and a body was returned as it was
C19_Witness ==
    /\ result.variant = "Response"
    /\ result.status = 503
    /\ Len(result.headers) = 1
    /\ result.headers[1].name = "content-type"
    /\ stream # <<>>
    /\ body = stream

RECURSIVE JoinLF(_)
\* the pieces joined with "\n"
JoinLF(ss) ==
    IF Len(ss) = 0 THEN <<>>
    ELSE IF Len(ss) = 1 THEN ss[1]
    ELSE ss[1] \o <<LF>> \o JoinLF(Tail(ss))

\* the header lines an event calls for, in order
HeaderLines(ev) ==
    (IF ev.id # <<>> THEN <<PrefixId \o ev.id[1]>> ELSE <<>>)
    \o (IF ev.event # <<>> THEN <<PrefixEvent \o ev.event[1]>> ELSE <<>>)
    \o (IF ev.retry # <<>>
        THEN <<PrefixRetry \o [i \in 1..Len(ev.retry[1]) |-> ev.retry[1][i] + 48]>>
        ELSE <<>>)

\* the bytes are the serialised block of the event
IsBlockOf(bytes, ev) ==
    LET t == from_utf8(bytes)
        ls == split(t.text, LF)
        n == Len(ls)
        h == Len(HeaderLines(ev))
    IN  /\ t.status = "ok"
        /\ n >= h + 3
        /\ ls[n] = <<>> /\ ls[n - 1] = <<>>
        /\ SubSeq(ls, 1, h) = HeaderLines(ev)
        /\ n - 2 - h = 1 + Len(SelectSeq(ev.data, LAMBDA c : c = LF))
        /\ \A j \in (h + 1)..(n - 2) : starts_with(ls[j], PrefixData)
        /\ JoinLF([j \in 1..(n - 2 - h) |-> Tail0(ls[h + j], Len(PrefixData))])
              = ev.data

\* C20: re-serialisation.  The body of the re-serialised response has one
\* chunk per event, in stream order: "id: <id>\n" if id is present, then
\* "event: <type>\n" if present, then "retry: <ms>\n" if present, then one
\* "data: <line>\n" per line of data (one for empty data), then one blank
\* line; an error item of the stream writes nothing.
C20_Reserialization ==
    (result.variant = "Events" /\ codec = "raw") =>
        /\ Len(wire) = Len(out)
        /\ \A i \in 1..Len(wire) :
              IF out[i].kind = "event"
              THEN wire[i].tag = "Ok" /\ IsBlockOf(wire[i].val[1], out[i].ev)
              ELSE wire[i].tag = "Err" /\ wire[i].val = <<>>

\* an event with id, type, retry and two lines of data was serialised
C20_Witness ==
    /\ result.variant = "Events" /\ codec = "raw"
    /\ Len(wire) = 1
    /\ out[1].kind = "event"
    /\ out[1].ev.id # <<>> /\ out[1].ev.event # <<>> /\ out[1].ev.retry # <<>>
    /\ Contains(out[1].ev.data, LF)
    /\ wire[1].tag = "Ok"

\* C21: JSON codec round trip.  For every typed value v, the message that
\* Json(v).to_ws_message() returns is converted back by from_ws_message
\* into Ok of a value equal to v.
C21_JsonRoundTrip ==
    (convPc = "back" /\ convVal # <<>>) =>
        /\ convRes[1].tag = "Ok"
        /\ convRes[1].val = convVal

\* C22: the JSON codec takes and gives Text only.  from_ws_message on a
\* Binary message returns the conversion error that names the expected Text
\* kind, never a value; to_ws_message always returns, and what it returns
\* is a Text message, for a conversion on its own as for a typed send.
C22_JsonTextOnly ==
    /\ (convPc = "back" /\ convMsg[1].kind = "Binary") =>
          convRes[1] =
             ErrResult("expected Text message for JSON deserialization, got Binary")
    /\ (convVal # <<>> /\ convPc # "value") =>
          /\ convPc # "panicked"
          /\ convMsg[1].kind = "Text"
    /\ \A i \in 1..Len(sendLog) :
          (sendLog[i].op = "send" /\ codec # "raw") => sinkLog[i].kind = "Text"

\* registry list calls made by the i-th get
ListedBy(i) == getLog[i].lists - (IF i = 1 THEN 0 ELSE getLog[i - 1].lists)

\* the i-th get ended in an error
GetFailed(i) == getLog[i].ret.tag = "Err"

\* C23 as claimed: plugin resolution is lazy and caches only success.  Every
\* failed get made while resolution has not yet succeeded makes one
\* registry list call and caches nothing; once resolution has succeeded the
\* registry is never queried again and every later get_plugin returns the
\* same plugin client.
C23_LazyResolution ==
    \A i \in 1..Len(getLog) :
        /\ (getLog[i].unresolved /\ GetFailed(i)) => ListedBy(i) = 1
        /\ (getLog[i].unresolved /\ getLog[i].sel = <<>>) => GetFailed(i)
        /\ ~getLog[i].unresolved =>
              /\ ListedBy(i) = 0
              /\ getLog[i].sel = getLog[i - 1].sel
              /\ getLog[i].plugin = OkResult(getLog[i].sel[1])

\* C23 amended: a get made while resolution has not yet succeeded makes one
\* registry list call if the hub holds a registry client and none if it
\* holds none, and caches the instance only if resolution succeeds; once
\* resolution has succeeded the registry is never queried again, and every
\* later get_plugin returns the client registered under the instance
\* resolved first, or PluginUnavailable while no client is registered
\* under it.
C23_LazyResolutionAmended ==
    \A i \in 1..Len(getLog) :
        /\ getLog[i].unresolved =>
              /\ ListedBy(i) = (IF getLog[i].registry = "absent" THEN 0 ELSE 1)
              /\ getLog[i].sel = (IF getLog[i].registry \in Instances
                                  THEN <<getLog[i].registry>> ELSE <<>>)
              /\ getLog[i].sel = <<>> => GetFailed(i)
        /\ ~getLog[i].unresolved =>
              /\ ListedBy(i) = 0
              /\ getLog[i].sel = getLog[i - 1].sel
              /\ getLog[i].plugin =
                    (IF getLog[i].sel[1] \in getLog[i].clients
                     THEN OkResult(getLog[i].sel[1])
                     ELSE ErrResult("PluginUnavailable"))
    /\ list_calls = (IF getLog = <<>> THEN 0 ELSE getLog[Len(getLog)].lists)

\* a failed resolution with a list call, then a successful one, then a get
\* that finds the registry listing another instance and still gets the
\* first one's client
C23_Witness ==
    /\ Len(getLog) = 3
    /\ getLog[1].unresolved /\ getLog[1].registry = "failing"
    /\ getLog[2].unresolved /\ getLog[2].plugin = OkResult("inst1")
    /\ ~getLog[3].unresolved /\ getLog[3].registry = "inst2"
    /\ getLog[3].plugin = OkResult("inst1")
    /\ list_calls = 2

\* C24: enqueued events are yielded one at a time before any further chunk
\* is pulled.  The byte source is pulled only inside a next-item request and
\* only while the pending queue is empty; a request that finds an enqueued
\* event returns exactly that event and pulls nothing; every request returns
\* at most one item; nothing is pulled outside a request, so nothing before
\* the first one.
C24_PullOnlyWhenStarved ==
    [][ /\ (body' # body \/ done' # done) => (pc = "loop" /\ pending = <<>>)
        /\ (pc = "loop" /\ pending # <<>>) =>
              /\ out' = Append(out, EventItem(Head(pending)))
              /\ pending' = Tail(pending)
              /\ body' = body
              /\ pc' = "idle"
        /\ out' # out => (Len(out') = Len(out) + 1 /\ pc' = "idle")
        /\ pc # "loop" => (body' = body /\ done' = done /\ out' = out)
      ]_vars

\* two events were enqueued by one chunk, the first has been returned, the
\* second waits and the source has not been pulled again
C24_Witness ==
    /\ pc = "idle"
    /\ Len(out) = 1
    /\ pending # <<>>
    /\ body = <<>>
    /\ ~done

RECURSIVE CountCRLF(_)
\* the CR LF pairs in a text
CountCRLF(s) ==
    IF Len(s) < 2 THEN 0
    ELSE IF s[1] = CR /\ s[2] = LF THEN 1 + CountCRLF(Tail(Tail(s)))
    ELSE CountCRLF(Tail(s))

\* a line ending written as a bare CR is directly followed by an empty line
\* whose ending is written as LF: the text shows one CR LF pair more than
\* there are CRLF endings
CrMeetsLf(w) ==
    CountCRLF(WriteEndings(w.lf, w.styles))
        # Cardinality({i \in DOMAIN w.styles : w.styles[i] = "crlf"})

\* the written text was delivered and the source ended without error
WrittenParsed ==
    written # <<>> /\ pc = "ended" /\ ~HasKind(out, "stream_err")

\* C25 as claimed: line-ending equivalence.  A text delivered as one chunk
\* yields the same items whether each of its line endings is written as LF,
\* as CRLF or as a bare CR, in any mixture.
C25_LineEndingEquivalence ==
    WrittenParsed =>
        out = OneShotItems(Utf8EncodeAll(written[1].lf))

\* C25 amended: the equivalence holds for every mixture of LF, CRLF and bare
\* CR endings in which no ending written as a bare CR is directly followed by
\* an ending written as LF (the two read as one CRLF).
C25_LineEndingEquivalenceAmended ==
    (WrittenParsed /\ ~CrMeetsLf(written[1])) =>
        out = OneShotItems(Utf8EncodeAll(written[1].lf))

\* a text of two events has been parsed to its end with a bare CR, a CRLF
\* and an LF among its endings
C25_Witness ==
    /\ WrittenParsed
    /\ ~CrMeetsLf(written[1])
    /\ {written[1].styles[i] : i \in DOMAIN written[1].styles} = EndingStyles
    /\ Len(out) = 2

\* the number of U+FEFF in a text
CountBOM(t) == Cardinality({i \in 1..Len(t) : t[i] = BOM})

\* C26: byte-order-mark handling.  Of all the text decoded so far exactly
\* its first character is removed if it is U+FEFF, however the bytes were
\* cut into chunks, and no other character is removed: every later U+FEFF
\* stays in the text handed to the line parser.
C26_BomStrippedOnce ==
    /\ CountBOM(norm) =
          CountBOM(decoded) - (IF decoded # <<>> /\ decoded[1] = BOM THEN 1 ELSE 0)
    /\ ~Contains(decoded, CR) =>
          norm = (IF decoded # <<>> /\ decoded[1] = BOM THEN Tail(decoded)
                  ELSE decoded)

\* a stream of two U+FEFF has been decoded from chunks that cut a character:
\* the first is gone, the second is kept
C26_Witness ==
    /\ decoded = <<BOM, BOM>>
    /\ norm = <<BOM>>
    /\ splitMax > 0
    /\ body = <<>>

RECURSIVE DropNewlines(_)
DropNewlines(t) == IF t # <<>> /\ t[1] = LF THEN DropNewlines(Tail(t)) ELSE t

\* the pieces of a text between its runs of two or more newlines
RECURSIVE RunBlocks(_, _)
RunBlocks(t, cur) ==
    IF t = <<>> THEN <<cur>>
    ELSE IF Len(t) >= 2 /\ t[1] = LF /\ t[2] = LF
    THEN <<cur>> \o RunBlocks(DropNewlines(t), <<>>)
    ELSE RunBlocks(Tail(t), Append(cur, t[1]))

RECURSIVE RunEvents(_)
RunEvents(blocks) ==
    IF blocks = <<>> THEN <<>>
    ELSE (IF ParseBlock(Head(blocks)) = DefaultEvent THEN <<>>
          ELSE <<ParseBlock(Head(blocks))>>) \o RunEvents(Tail(blocks))

\* C27: a run of two or more newlines between blocks is one event boundary,
\* whatever its length and wherever the chunks cut it.  No event without
\* fields is pending or yielded, and once the sequence has ended without
\* transport error the events yielded are, in order, the events of the pieces
\* the runs of two or more newlines cut the text into, each parsed on its own.
C27_NewlineRunOneBoundary ==
    pc # "none" =>
        /\ \A i \in 1..Len(out) : out[i].kind = "event" => out[i].ev # DefaultEvent
        /\ \A i \in 1..Len(pending) : pending[i] # DefaultEvent
        /\ (pc = "ended" /\ ~HasKind(out, "stream_err")) =>
              EventsOf(out) = RunEvents(RunBlocks(norm, <<>>))

\* a run of three newlines was cut after its second newline (the third one
\* was still in the buffer at the end of the stream), and the two events
\* around it were yielded
C27_Witness ==
    /\ pc = "ended"
    /\ stream = RunStream(3)
    /\ flushBuf = << <<LF, 105, 100, 58, 49>> >>
    /\ EventsOf(out) = << [DefaultEvent EXCEPT !.data = <<97>>],
                          [DefaultEvent EXCEPT !.id = << <<49>> >>] >>

\* the line handed to parse_line last
LastLine == blkLines[blkAt]

\* the part of a line before its first colon (the whole line without colon)
LineName(line) ==
    IF \E i \in 1..Len(line) : line[i] = COLON
    THEN SubSeq(line, 1, (CHOOSE i \in 1..Len(line) :
                             /\ line[i] = COLON
                             /\ \A j \in 1..(i - 1) : line[j] # COLON) - 1)
    ELSE line

\* the part after the first colon, less one leading space
LineValue(line) ==
    LET rest == SubSeq(line, Len(LineName(line)) + 2, Len(line))
    IN  IF rest # <<>> /\ rest[1] = SPACE THEN SubSeq(rest, 2, Len(rest)) ELSE rest

\* the values of the data lines among the lines, in order
RECURSIVE DataValues(_)
DataValues(ls) ==
    IF ls = <<>> THEN <<>>
    ELSE (IF LineName(Head(ls)) = FieldData THEN <<LineValue(Head(ls))>> ELSE <<>>)
             \o DataValues(Tail(ls))

\* C28: a data line appends its value to the event's data, after a newline
\* if and only if data was non-empty before the line: on empty data the value
\* alone becomes the data (an empty value leaves it empty), on non-empty data
\* a newline and the value are appended (an empty value appends the bare
\* newline); and the data of a block whose data values are all non-empty is
\* these values joined by single newlines.
C28_DataAccumulation ==
    /\ (blkPc = "lines" /\ blkAt >= 1 /\ LineName(LastLine) = FieldData) =>
          /\ blkPrev.data = <<>> => blkEvent.data = LineValue(LastLine)
          /\ blkPrev.data # <<>> =>
                blkEvent.data = blkPrev.data \o <<LF>> \o LineValue(LastLine)
    /\ (blkPc = "lines" /\ blkAt = Len(blkLines)
          /\ \A i \in 1..Len(DataValues(blkLines)) : DataValues(blkLines)[i] # <<>>)
         => blkEvent.data = JoinLF(DataValues(blkLines))

\* "data:", "data:a", "data:" gave the data "a" followed by one newline
C28_Witness ==
    /\ blkPc = "lines"
    /\ blkAt = 3
    /\ DataValues(blkLines) = << <<>>, <<97>>, <<>> >>
    /\ blkPrev.data = <<97>>
    /\ blkEvent.data = <<97, LF>>

HasNul(value) == \E i \in 1..Len(value) : value[i] = NUL

\* the id a block leaves: the value of its last id line without NUL
RECURSIVE LastId(_)
LastId(ls) ==
    IF ls = <<>> THEN <<>>
    ELSE IF LineName(ls[Len(ls)]) = FieldId /\ ~HasNul(LineValue(ls[Len(ls)]))
    THEN <<LineValue(ls[Len(ls)])>>
    ELSE LastId(SubSeq(ls, 1, Len(ls) - 1))

\* C29: an id line whose value holds a NUL leaves the whole event as it was;
\* every other id line sets id to its value and nothing else, so the id of a
\* scanned block is the value of its last id line without NUL, absent when it
\* has none.
C29_IdNulIgnored ==
    /\ (blkPc = "lines" /\ blkAt >= 1 /\ LineName(LastLine) = FieldId) =>
          blkEvent = (IF HasNul(LineValue(LastLine)) THEN blkPrev
                      ELSE [blkPrev EXCEPT !.id = <<LineValue(LastLine)>>])
    /\ blkPc = "lines" => blkEvent.id = LastId(SubSeq(blkLines, 1, blkAt))

\* after "id:1" and "data:a" the line "id: a<NUL>b" left the event unchanged
C29_Witness ==
    /\ blkPc = "lines"
    /\ blkAt = 3
    /\ LastLine = <<105, 100, 58, 32, 97, NUL, 98>>
    /\ blkPrev = [DefaultEvent EXCEPT !.id = << <<49>> >>, !.data = <<97>>]
    /\ blkEvent = blkPrev

\* the value is one or more ASCII digits denoting a number below 2^64
IsU64Digits(value) ==
    /\ value # <<>>
    /\ \A i \in 1..Len(value) : IsDigit(value[i])
    /\ FitsU64(StripZeros([i \in 1..Len(value) |-> value[i] - 48]))

\* C30: a retry line sets retry, to the number its value denotes and leaving
\* the other fields alone, if and only if the value (less one leading space)
\* consists of ASCII digits only and fits in 64 bits; every other retry line
\* leaves the event unchanged.
C30_RetryDigitsOnly ==
    (blkPc = "lines" /\ blkAt >= 1 /\ LineName(LastLine) = FieldRetry) =>
        blkEvent =
          (IF IsU64Digits(LineValue(LastLine))
           THEN [blkPrev EXCEPT !.retry =
                    <<StripZeros([i \in 1..Len(LineValue(LastLine)) |->
                                     LineValue(LastLine)[i] - 48])>>]
           ELSE blkPrev)

\* C31: a line is split at its first colon only, a line without colon is a
\* field name with empty value, and exactly one leading space of the value
\* is removed: an event line stores that value, a data line appends that
\* value (later colons, a second space and a tab included), and an id line
\* without NUL stores it.
C31_FieldValueSplit ==
    (blkPc = "lines" /\ blkAt >= 1) =>
        /\ LineName(LastLine) = FieldEvent =>
              blkEvent.event = <<LineValue(LastLine)>>
        /\ LineName(LastLine) = FieldData =>
              \E sep \in {<<>>, <<LF>>} :
                  blkEvent.data = blkPrev.data \o sep \o LineValue(LastLine)
        /\ (LineName(LastLine) = FieldId /\ ~HasNul(LineValue(LastLine))) =>
              blkEvent.id = <<LineValue(LastLine)>>

\* "data:a:b", "data:  2" and "data:<TAB>x" gave the data "a:b", " 2" and
\* "<TAB>x", one per line
C31_Witness ==
    /\ blkPc = "lines"
    /\ blkAt = 3
    /\ blkLines = << <<100, 97, 116, 97, 58, 97, 58, 98>>,
                     <<100, 97, 116, 97, 58, 32, 32, 50>>,
                     <<100, 97, 116, 97, 58, 9, 120>> >>
    /\ blkEvent.data = <<97, 58, 98, LF, 32, 50, LF, 9, 120>>

\* the line is ignored: a comment, or a field name other than the four
IsIgnoredLine(line) ==
    \/ line # <<>> /\ line[1] = COLON
    \/ LineName(line) \notin {FieldData, FieldEvent, FieldId, FieldRetry}

\* C32: a comment line and a line whose field name is not exactly data,
\* event, id or retry (unknown, different in letter case, or with extra
\* characters) change none of id, event, data and retry, wherever they
\* stand in the block.
C32_IgnoredLinesNoEffect ==
    (blkPc = "lines" /\ blkAt >= 1 /\ IsIgnoredLine(LastLine)) =>
        blkEvent = blkPrev

\* after "id: 1" and "data:a:b" the line "Data:1" left the event unchanged
C32_Witness ==
    /\ blkPc = "lines"
    /\ blkAt = 3
    /\ LastLine = <<68, 97, 116, 97, 58, 49>>
    /\ blkPrev = [DefaultEvent EXCEPT !.id = << <<49>> >>, !.data = <<97, 58, 98>>]
    /\ blkEvent = blkPrev

\* one turn of the loop of extract_events on the buffer t leaves a strictly
\* shorter buffer
LoopShortens(t) ==
    FindBoundary(t) # 0 =>
        Len(trim_start_newlines(Tail0(t, FindBoundary(t) + 1))) < Len(t)

\* C33: termination.  Over a finite byte source and with a consumer that
\* keeps requesting, every request returns (with an item or with the end of
\* the sequence), the end of the sequence is reached, and on every text the
\* buffer can hold one turn of the boundary-extraction loop strictly shortens
\* the buffer.
C33_Termination ==
    /\ [](pc = "loop" => <>(pc # "loop"))
    /\ <>(pc = "ended")
    /\ [](\A i \in 0..Len(norm) : LoopShortens(Tail0(norm, i)))

\* the sequence ended after an event, a decode error and a transport error
C33_Witness ==
    /\ pc = "ended"
    /\ HasKind(out, "event")
    /\ HasKind(out, "decode_err")
    /\ HasKind(out, "stream_err")

\* ------------------------------------------------------------------------
\* C34: forward_body_stream sends exactly one message per chunk of the body
\* stream, in chunk order, each chunk as a Text message holding the chunk;
\* at the first body-stream error or sink error it returns that error
\* without pulling another chunk or sending another message, and it returns
\* Ok only after the stream ended with every chunk sent.
\* ------------------------------------------------------------------------
\* the items pulled from the body stream so far
Pulled == SubSeq(brIn, 1, brAt)

\* the chunks among them
PulledChunks == SelectSeq(Pulled, LAMBDA c : c.tag = "Ok")

\* one message per chunk, in order, carrying the chunk's bytes
OneMessagePerChunk ==
    /\ Len(brOut) = Len(PulledChunks)
    /\ \A i \in 1..Len(brOut) :
          IF brOut[i].kind = "Text"
          THEN Utf8EncodeAll(brOut[i].payload) = PulledChunks[i].val[1]
          ELSE brOut[i].payload = PulledChunks[i].val[1]

\* the value returned matches the point the loop stopped at
ForwardReturn ==
    /\ \A i \in 1..(brAt - 1) : brIn[i].tag = "Ok"
    /\ brRet = <<>> => \A i \in 1..brAt : brIn[i].tag = "Ok"
    /\ brRet = <<OkResult(<<>>)>> =>
          brAt = Len(brIn) /\ \A i \in 1..Len(brIn) : brIn[i].tag = "Ok"
    /\ brRet = <<ErrResult("stream")>> => brAt >= 1 /\ brIn[brAt].tag = "Err"
    /\ brRet = <<ErrResult("sink")>> => brAt >= 1 /\ brIn[brAt].tag = "Ok"

C34_ForwardAsText ==
    brPc = "forward" =>
        /\ OneMessagePerChunk
        /\ ForwardReturn
        /\ \A i \in 1..Len(brOut) : brOut[i].kind = "Text"

\* ------------------------------------------------------------------------
\* C35: in the byte stream made by into_body_stream every Text and every
\* Binary message that precedes the first Close becomes exactly one chunk
\* holding its payload bytes, in arrival order; Ping and Pong produce no
\* chunk; a channel error becomes one error chunk; the stream terminates on
\* Close or on the end of the raw channel.
\* ------------------------------------------------------------------------
\* the raw items taken from the channel so far that make an item of the
\* stream: everything but Ping, Pong and Close
TakenData == SelectSeq(Pulled, LAMBDA m : m.kind \in {"Text", "Binary", "Err"})

\* the item of the body stream the raw item m stands for
IsChunkOf(item, m) ==
    CASE m.kind = "Text" ->
           /\ item.ret = "Some" /\ item.item.tag = "Ok"
           /\ from_utf8(item.item.val[1]).status = "ok"
           /\ from_utf8(item.item.val[1]).text = m.payload
      [] m.kind = "Binary" -> item = SomeRet(OkResult(m.payload))
      [] OTHER -> item.ret = "Some" /\ item.item.tag = "Err"

C35_IntoBodyStream ==
    brPc = "into_body" =>
        /\ \A i \in 1..(brAt - 1) : brIn[i].kind # "Close"
        /\ Len(brOut) = Len(TakenData) + Len(brRet)
        /\ \A i \in 1..Len(TakenData) : IsChunkOf(brOut[i], TakenData[i])
        /\ brRet # <<>> =>
              /\ brOut[Len(brOut)] = NoneRet
              /\ (brAt = Len(brIn) \/ brIn[brAt].kind = "Close")
              /\ \/ (brAt >= 1 /\ brIn[brAt].kind = "Close")
                 \/ \A i \in 1..Len(brIn) : brIn[i].kind # "Close"
        /\ brRet = <<>> =>
              /\ \A i \in 1..brAt : brIn[i].kind # "Close"
              /\ brAt >= 1 => brIn[brAt].kind \in {"Text", "Binary", "Err"}

\* a Text and a Binary message became chunks, a Ping was passed over, the
\* stream ended on the Close
C35_Witness ==
    /\ brPc = "into_body"
    /\ brIn = <<Msg("Text", <<233>>), Msg("Ping", <<>>), Msg("Close", <<>>)>>
    /\ brOut = <<SomeRet(OkResult(<<195, 169>>)), NoneRet>>

\* ------------------------------------------------------------------------
\* C36: the four receive paths are equivalent: over the same raw items,
\* channel errors and items after a Close included, WebSocketStream::recv,
\* the Stream impl of WebSocketStream, WebSocketStreamReceiver::recv and the
\* Stream impl of WebSocketStreamReceiver return the same items and end the
\* sequence (return None) at the same points.
\* ------------------------------------------------------------------------
C36_PathsEquivalent ==
    brPc = "paths" =>
        \A i \in 2..4 : brOut[i] = brOut[1]

\* a Ping was passed over, the Close ended the sequence, the Text after it
\* was converted by every path, then the channel ended
C36_Witness ==
    /\ brPc = "paths"
    /\ codec = "json"
    /\ brIn = <<Msg("Ping", <<>>), Msg("Close", <<>>), Msg("Text", <<55>>)>>
    /\ brAt = 4
    /\ brOut[4] = <<NoneRet, SomeRet(from_ws_message("json", Msg("Text", <<55>>))), NoneRet>>


\* ------------------------------------------------------------------------
\* C37: parse/serialize round trip.  For every non-empty event the parser
\* can produce, the bytes serialize_event writes for it parse back to
\* exactly that one event, and the concatenated serialisations of a
\* sequence of such events parse back to the same sequence.
\* ------------------------------------------------------------------------
C37_RoundTrip ==
    (brPc = "round" /\ brRet # <<>>) => brRet[1] = Items(brIn)

\* two events were written and parsed back: the first with data that has a
\* leading space and a trailing newline, the second with an empty id and
\* no data
C37_Witness ==
    /\ brPc = "round"
    /\ brRet # <<>>
    /\ Len(brIn) = 2
    /\ brIn[1].data = <<SPACE, 98, LF>>
    /\ brIn[2].id = <<<<>>>> /\ brIn[2].data = <<>>

\* ------------------------------------------------------------------------
\* C38: a truncated multi-byte sequence is never an error.  A chunk that
\* ends inside a character yields no item: the cut-off bytes, one to three,
\* are held back and the text before them is processed; a decode error is
\* yielded only for bytes that are invalid.  Once the byte source has ended
\* while such bytes are held back, no error item follows; without an
\* error item the sequence ends with exactly the items of the stream without
\* those bytes, the text decoded before them flushed as usual.
\* ------------------------------------------------------------------------
\* the bytes decoded by the step: the tail held back and the chunk pulled
PulledBytes == utf8_tail \o SubSeq(body, 1, Len(body) - Len(body'))

\* a chunk was pulled and the bytes to decode end inside a character
CutOffChunk ==
    /\ pc = "loop" /\ pending = <<>> /\ ~done /\ ~done'
    /\ from_utf8(PulledBytes).status = "incomplete"

\* the step appends an error item
YieldsError == Len(out') = Len(out) + 1 /\ IsErrItem(out'[Len(out')])

C38_TruncatedNeverError ==
    /\ [][CutOffChunk =>
            /\ out' = out
            /\ pc' = "loop"
            /\ utf8_tail' = Tail0(PulledBytes, from_utf8(PulledBytes).valid_up_to)
            /\ Len(utf8_tail') \in 1..3
            /\ decoded' = decoded \o from_utf8(PulledBytes).text]_vars
    /\ [][(YieldsError /\ out'[Len(out')].kind = "decode_err") =>
            from_utf8(PulledBytes).status = "invalid"]_vars
    /\ [][(utf8_tail # <<>> /\ done) => ~YieldsError]_vars
    /\ []((pc = "ended" /\ utf8_tail # <<>> /\ ~HasErr(out)) =>
            out = OneShotItems(SubSeq(stream, 1, Len(stream) - Len(utf8_tail))))

\* the source ended inside U+20AC: the two bytes were dropped, the block
\* buffered before them was flushed as the second event, no error item
C38_Witness ==
    /\ pc = "ended"
    /\ utf8_tail = <<226, 130>>
    /\ ~HasErr(out)
    /\ Len(out) = 2
    /\ out[2].ev.data = <<233>>
    /\ flushBuf = <<<<100, 97, 116, 97, 58, 233>>>>

\* ------------------------------------------------------------------------
\* C39: an error item never overtakes events.  When a step yields a decode
\* error or a transport error, no event is waiting in the pending queue and
\* the events yielded before it are all the events the text of the earlier
\* chunks completes; the decode error leaves the text buffered for a still
\* incomplete block unchanged.
\* ------------------------------------------------------------------------
C39_ErrorNeverOvertakes ==
    [][YieldsError =>
          /\ pending = <<>> /\ pending' = <<>>
          /\ EventsOf(out) = extract_events(norm).events
          /\ norm' = norm
          /\ out'[Len(out')].kind = "decode_err" => buf' = buf]_vars

\* the chunk 0xFF gave a decode error after the event "x" had been yielded
\* and while "data:y" was buffered; the buffered block then became an event
C39_Witness ==
    /\ Len(out) = 3
    /\ out[1].kind = "event" /\ out[1].ev.data = <<120>>
    /\ out[2].kind = "decode_err"
    /\ out[3].kind = "event" /\ out[3].ev.data = <<121>>

\* ------------------------------------------------------------------------
\* C40: parser state invariants at every suspension point (the parser is
\* about to pull a chunk or has returned an item): the text buffer holds no
\* CR and no two consecutive newlines, every event in the pending queue is
\* non-empty, and the UTF-8 tail holds at most 3 bytes that form a proper
\* prefix of one multi-byte sequence.
\* ------------------------------------------------------------------------
\* the closure awaits body.next() or has returned
AtSuspension == pc \in {"idle", "ended"} \/ (pc = "loop" /\ pending = <<>> /\ ~done)

\* bytes that may follow a lead byte: the ends of the ranges of a second
\* byte (0x80, 0x8F, 0x90, 0x9F, 0xA0, 0xBF)
TrailBytes == {128, 143, 144, 159, 160, 191}

\* t is the beginning of one multi-byte character and not all of it
IsProperPrefix(t) ==
    /\ t # <<>>
    /\ \E c \in UNION { [1..n -> TrailBytes] : n \in 1..3 } :
          /\ from_utf8(t \o c).status = "ok"
          /\ Len(from_utf8(t \o c).text) = 1

C40_SuspensionInvariants ==
    AtSuspension =>
        /\ ~Contains(buf, CR)
        /\ \A i \in 1..(Len(buf) - 1) : ~(buf[i] = LF /\ buf[i + 1] = LF)
        /\ \A i \in 1..Len(pending) : ~is_empty(pending[i])
        /\ Len(utf8_tail) <= 3
        /\ utf8_tail # <<>> => IsProperPrefix(utf8_tail)

\* one event was returned, one is waiting, a line is buffered, three
\* bytes of a four-byte character are held back
C40_Witness ==
    /\ pc = "idle"
    /\ Len(out) = 1
    /\ Len(pending) = 1
    /\ buf = <<105, 100, 58, 51, 10>>
    /\ utf8_tail = <<240, 159, 152>>
====
